---- MODULE Spec2Model ----
(***************************************************************************)
(* Per-user file storage API: the quota-enforced upload / delete /         *)
(* download pipeline of storage.FileService, the quota ledger              *)
(* models.UpdateStorageUsed, the file-metadata collection of models/file.go*)
(* and the gin handlers that expose them.                                  *)
(*                                                                         *)
(* The document store is modelled as two sets of documents (users, files), *)
(* the filesystem as a partial function from paths to byte sequences       *)
(* (blobs).  Every store or filesystem call that can return an error takes *)
(* a fault input that decides whether it does.  Left out: updated_at, the  *)
(* user directories (MkdirAll is idempotent and nothing reads whether a    *)
(* directory exists) and the temporary spool file (removed on return).     *)
(*                                                                         *)
(* Spec serves one request at a time, each handler one step.  SpecApi adds *)
(* the read-only endpoints and the requests AuthMiddleware turns away.     *)
(* SpecSteps runs the requests of two goroutines with one step per store   *)
(* or filesystem call, SpecAuth does the same for /register and /login.    *)
(* SpecLedger calls models.UpdateStorageUsed alone, with every sizeChange. *)
(* SpecSharedDirectory is SpecFaultFree over two accounts whose usernames   *)
(* name one directory.  SpecTermination adds the steps of DownloadFile and *)
(* the failure of every call to the steps, and weak fairness of each       *)
(* goroutine's next call returning.                                        *)
(***************************************************************************)
EXTENDS Integers, Sequences, FiniteSets, TLC

VARIABLES users, files, blobs, nextId, last, pre, faulty,
          authz, body, displayInMB, procs

vars == <<users, files, blobs, nextId, last, pre, faulty,
          authz, body, displayInMB, procs>>

(***************************** bounds **************************************)
\* longest request body, in bytes
MaxLen == 2
\* number of ObjectIDs the file collection hands out in one run
MaxId == 2
\* number of uploads, deletes and downloads of one run in which a store or
\* filesystem call fails
MaxFaulty == 1
\* storage_limit of the two accounts (bytes)
LimitA == 3
LimitB == 1
\* largest sizeChange, in bytes, of a direct call of models.UpdateStorageUsed
MaxDelta == 4

(***************************** constants ***********************************)
MessageUserCreated == "User created successfully"
MessageUserExists == "User already exists"
MessageInvalidCredentials == "Invalid username or password"
MessageInvalidToken == "Invalid or expired token"
MessageInvalidRequest == "Invalid request format"
MessageUserNotFound == "User not found"
MessageFileNotFound == "File not found"
MessageFileDuplicate == "File with the same name already exists"
MessageStorageLimitExceeded == "Storage limit exceeded"
MessageFileUploaded == "File uploaded successfully"
MessageFileDeleted == "File deleted successfully"

StatusOK == 200
StatusCreated == 201
StatusBadRequest == 400
StatusUnauthorized == 401
StatusNotFound == 404
StatusInternalServerError == 500

BearerPrefix == "Bearer "

\* FileHandler.ListFiles: page and page_size when the query gives none
DefaultPage == 1
DefaultPageSize == 10

\* An error value is the chain of its message parts: errors.New(m) is <<m>>,
\* fmt.Errorf("m: %w", e) is <<m>> \o e, and err.Error() shows every part.
NoErr == <<>>
E(msg) == <<msg>>
Wrap(msg, err) == <<msg>> \o err
\* an error of the mongo driver other than ErrNoDocuments (timeout, network)
StoreErr == E("mongo driver error")
\* an error of the os package (permission, disk full, I/O)
FsErr == E("os error")

(***************************** input sets **********************************)
\* ObjectIDs of the accounts AuthMiddleware lets through
UserIDs == {"u1", "u2"}
FileNames == {"a.txt", "b.txt"}
FileIDs == 1..MaxId

\* request bodies: n zero bytes, 0 <= n <= MaxLen (createTestFile writes zeros)
Contents == {[i \in 1..n |-> 0] : n \in 0..MaxLen}

Passwords == {"pw1", "pw2"}

\* auth.HashPassword: bcrypt.GenerateFromPassword, the hash is not the password
HashPassword(password) == <<"bcrypt", password>>

\* mutant: every password passes
CheckPasswordHashAlways(password, hash) == TRUE

\* auth.CheckPasswordHash: bcrypt.CompareHashAndPassword
CheckPasswordHash(password, hash) == hash = <<"bcrypt", password>>

\* a document of the users collection (models.User)
User(id, username, password, limit, used) ==
    [id |-> id, username |-> username, password |-> password,
     storage_limit |-> limit, storage_used |-> used]

(***************************** Metadata Store ******************************)
NoUser == User("", "", <<>>, 0, 0)

\* models.GetUserByID: FindOne({_id: id}); fault: the driver fails
HasUser(us, id) == \E u \in us : u.id = id
GetUserByID(us, id) == IF HasUser(us, id) THEN CHOOSE u \in us : u.id = id ELSE NoUser

\* mutant: the result is not clamped at zero
NewStorageUsedNoClamp(user, sizeChange) == user.storage_used + sizeChange

\* models.UpdateStorageUsed, the computation between the read and the write
NewStorageUsed(user, sizeChange) ==
    LET newSize == user.storage_used + sizeChange
    IN  IF newSize < 0 THEN 0 ELSE newSize

\* mutant: the limit is compared with the usage before the change
ExceedsLimitBeforeChange(user, sizeChange) ==
    sizeChange > 0 /\ user.storage_used > user.storage_limit

ExceedsLimit(user, sizeChange) ==
    sizeChange > 0 /\ NewStorageUsed(user, sizeChange) > user.storage_limit

\* variants of the update below: one that writes nothing, one that writes the
\* new size to storage_limit as well
SetStorageUsedKeeps(us, userID, newSize) == us
SetStorageUsedAndLimit(us, userID, newSize) ==
    {IF u.id = userID
     THEN [u EXCEPT !.storage_used = newSize, !.storage_limit = newSize]
     ELSE u : u \in us}

\* UpdateOne({_id: userID}, {$set: {storage_used: newSize, updated_at: now}})
SetStorageUsed(us, userID, newSize) ==
    {IF u.id = userID THEN [u EXCEPT !.storage_used = newSize] ELSE u : u \in us}

UpdateFaults == {"none", "get", "update"}

\* mutant: a change that reaches the limit exactly is refused as well
UpdateStorageUsedBelowLimit(us, userID, sizeChange, fault) ==
    LET user == GetUserByID(us, userID)
    IN  IF fault = "get" THEN [users |-> us, err |-> StoreErr]
        ELSE IF ~HasUser(us, userID) THEN [users |-> us, err |-> E(MessageUserNotFound)]
        ELSE IF sizeChange > 0 /\ NewStorageUsed(user, sizeChange) >= user.storage_limit
             THEN [users |-> us, err |-> E(MessageStorageLimitExceeded)]
        ELSE IF fault = "update" THEN [users |-> us, err |-> StoreErr]
        ELSE [users |-> SetStorageUsed(us, userID, NewStorageUsed(user, sizeChange)),
              err |-> NoErr]

\* models.UpdateStorageUsed: the users collection after the call and the error
UpdateStorageUsed(us, userID, sizeChange, fault) ==
    LET user == GetUserByID(us, userID)
    IN  IF fault = "get" THEN [users |-> us, err |-> StoreErr]
        ELSE IF ~HasUser(us, userID) THEN [users |-> us, err |-> E(MessageUserNotFound)]
        ELSE IF ExceedsLimit(user, sizeChange)
             THEN [users |-> us, err |-> E(MessageStorageLimitExceeded)]
        ELSE IF fault = "update" THEN [users |-> us, err |-> StoreErr]
        ELSE [users |-> SetStorageUsed(us, userID, NewStorageUsed(user, sizeChange)),
              err |-> NoErr]

\* mutant: Size is left at its zero value
FileMetadataSizeUnset(id, userID, fileName, filePath, size, createdAt) ==
    [id |-> id, user_id |-> userID, file_name |-> fileName, file_path |-> filePath,
     size |-> 0, created_at |-> createdAt]

\* a document of the files collection (models.FileMetadata)
FileMetadata(id, userID, fileName, filePath, size, createdAt) ==
    [id |-> id, user_id |-> userID, file_name |-> fileName, file_path |-> filePath,
     size |-> size, created_at |-> createdAt]

NoFile == FileMetadata(0, "", "", <<"", "">>, 0, 0)

\* mutant: the filter is {_id: fileID} alone
MatchesFileIdOnly(f, fileID, userID) == f.id = fileID

\* the filter {_id: fileID, user_id: userID} of GetFileByID and DeleteFileMetadata
MatchesFile(f, fileID, userID) == f.id = fileID /\ f.user_id = userID

\* mutant: GetFileByID looks the record up by _id alone
GetFileByIDAnyOwner(fs, fileID, userID, fault) ==
    IF fault THEN [file |-> NoFile, err |-> StoreErr]
    ELSE IF \E f \in fs : f.id = fileID
         THEN [file |-> CHOOSE f \in fs : f.id = fileID, err |-> NoErr]
         ELSE [file |-> NoFile, err |-> E(MessageFileNotFound)]

\* models.GetFileByID
GetFileByID(fs, fileID, userID, fault) ==
    IF fault THEN [file |-> NoFile, err |-> StoreErr]
    ELSE IF \E f \in fs : MatchesFile(f, fileID, userID)
         THEN [file |-> CHOOSE f \in fs : MatchesFile(f, fileID, userID), err |-> NoErr]
         ELSE [file |-> NoFile, err |-> E(MessageFileNotFound)]


\* models.CreateFileMetadata: InsertOne; the collection has no unique index
\* on (user_id, file_name), so the insert fails only when the driver does
CreateFileMetadata(fs, metadata, fault) ==
    IF fault THEN [files |-> fs, err |-> StoreErr]
    ELSE [files |-> fs \cup {metadata}, err |-> NoErr]

\* mutants: nothing is deleted; every record of the owner is deleted
DeleteFileMetadataKeeps(fs, fileID, userID, fault) == [files |-> fs, err |-> NoErr]
DeleteFileMetadataOfOwner(fs, fileID, userID, fault) ==
    [files |-> {f \in fs : f.user_id # userID}, err |-> NoErr]

\* models.DeleteFileMetadata: DeleteOne, DeletedCount = 0 is "File not found"
DeleteFileMetadata(fs, fileID, userID, fault) ==
    IF fault THEN [files |-> fs, err |-> StoreErr]
    ELSE IF ~\E f \in fs : MatchesFile(f, fileID, userID)
         THEN [files |-> fs, err |-> E(MessageFileNotFound)]
         ELSE [files |-> {f \in fs : ~MatchesFile(f, fileID, userID)}, err |-> NoErr]

\* models.FileExistsByName: defined, and called by nothing
FileExistsByName(fs, userID, fileName) ==
    Cardinality({f \in fs : f.user_id = userID /\ f.file_name = fileName}) > 0

\* mutant: the filter {user_id: userID} is left out
GetFilesOfAllUsers(fs, userID) == fs

\* models.GetFilesByUserID
GetFilesByUserID(fs, userID) == {f \in fs : f.user_id = userID}

\* SetSort({created_at: -1}): newest first
RECURSIVE SortByCreatedAtDesc(_)
SortByCreatedAtDesc(S) ==
    IF S = {} THEN <<>>
    ELSE LET newest == CHOOSE f \in S : \A g \in S : g.created_at <= f.created_at
         IN  <<newest>> \o SortByCreatedAtDesc(S \ {newest})

\* models.GetFilesByUserIDPaginated: the page and CountDocuments
GetFilesByUserIDPaginated(fs, userID, page, pageSize) ==
    LET skip == (page - 1) * pageSize
        sorted == SortByCreatedAtDesc(GetFilesByUserID(fs, userID))
        to == IF skip + pageSize < Len(sorted) THEN skip + pageSize ELSE Len(sorted)
    IN  [files |-> SubSeq(sorted, skip + 1, to),
         totalCount |-> Cardinality(GetFilesByUserID(fs, userID))]

(***************************** Blob Store **********************************)
\* filepath.Join cleans the path it returns: "." elements and a trailing
\* separator of the username drop out, so that different usernames can name
\* one directory
Clean(username) == IF username \in {"./alice", "alice/"} THEN "alice" ELSE username

\* filepath.Join(filepath.Join(storagePath, username), fileName)
FilePath(username, fileName) == <<Clean(username), fileName>>

\* mutant: the spool file is not rewound, io.Copy finds nothing to copy
WriteBlobNoSeek(bs, path, data) ==
    [p \in DOMAIN bs \cup {path} |-> IF p = path THEN <<>> ELSE bs[p]]

\* os.Create + io.Copy to the end: the path holds exactly data
WriteBlob(bs, path, data) ==
    [p \in DOMAIN bs \cup {path} |-> IF p = path THEN data ELSE bs[p]]

\* mutant: the file is left in place
RemoveBlobKeeps(bs, path) == bs

\* os.Remove of an existing path
RemoveBlob(bs, path) == [p \in DOMAIN bs \ {path} |-> bs[p]]

EmptyBlobs == [p \in {} |-> <<>>]

(***************************** FileService *********************************)
\* the stores a FileService call works on
World == [users |-> users, files |-> files, blobs |-> blobs, nextId |-> nextId]

UploadFaults == {"none", "getUser", "mkdir", "createTemp", "spool", "reserveGet",
                 "reserveUpdate", "seek", "create", "copy", "insert"}

\* the fault of the first UpdateStorageUsed call of UploadFile
ReserveFault(fault) ==
    CASE fault = "reserveGet" -> "get"
      [] fault = "reserveUpdate" -> "update"
      [] OTHER -> "none"

\* mutant: the reservation is not rolled back
RollbackSkipped(w, userID, size, rb) == w

\* a variant of the rollback below that calls again until the update is made
RollbackRetried(w, userID, size, rb) ==
    [w EXCEPT !.users = UpdateStorageUsed(w.users, userID, -size, "none").users]

\* _ = models.UpdateStorageUsed(userID, -size): the error is dropped
Rollback(w, userID, size, rb) ==
    [w EXCEPT !.users = UpdateStorageUsed(w.users, userID, -size, rb).users]

\* mutant: the written file is not removed
TryRemoveSkipped(w, path, rm) == w

\* _ = os.Remove(filePath): the error is dropped; rm: the removal fails
TryRemove(w, path, rm) ==
    IF rm \/ path \notin DOMAIN w.blobs THEN w
    ELSE [w EXCEPT !.blobs = RemoveBlob(w.blobs, path)]

\* mutant: the quota is reserved before the content is spooled
FileService_UploadFileReserveFirst(w, userID, fileName, fileData, fault, rb, rm, k) ==
    LET user == GetUserByID(w.users, userID)
        filePath == FilePath(user.username, fileName)
        size == Len(fileData)
        reserve == UpdateStorageUsed(w.users, userID, size, ReserveFault(fault))
        w2 == [w EXCEPT !.users = reserve.users]
        partial == [w2 EXCEPT !.blobs = WriteBlob(@, filePath, SubSeq(fileData, 1, k))]
        w3 == [w2 EXCEPT !.blobs = WriteBlob(@, filePath, fileData)]
        metadata == FileMetadata(w.nextId, userID, fileName, filePath, size, w.nextId)
        insert == CreateFileMetadata(w3.files, metadata, fault = "insert")
        Fail(ww, err) == [w |-> ww, err |-> err, file |-> NoFile]
    IN  IF fault = "getUser" \/ ~HasUser(w.users, userID)
        THEN Fail(w, E(MessageUserNotFound))
        ELSE IF fault = "mkdir"
        THEN Fail(w, Wrap("could not create user directory", FsErr))
        ELSE IF fault = "createTemp"
        THEN Fail(w, Wrap("failed to create temporary file", FsErr))
        ELSE IF reserve.err # NoErr
        THEN Fail(w, reserve.err)
        ELSE IF fault = "spool"
        THEN Fail(w2, Wrap("failed to read file data", FsErr))
        ELSE IF fault = "seek"
        THEN Fail(Rollback(w2, userID, size, rb),
                  Wrap("failed to reset file position", FsErr))
        ELSE IF fault = "create"
        THEN Fail(Rollback(w2, userID, size, rb), Wrap("failed to create file", FsErr))
        ELSE IF fault = "copy"
        THEN Fail(TryRemove(Rollback(partial, userID, size, rb), filePath, rm),
                  Wrap("failed to save file", FsErr))
        ELSE IF insert.err # NoErr
        THEN Fail(TryRemove(Rollback(w3, userID, size, rb), filePath, rm),
                  Wrap("failed to save file metadata", insert.err))
        ELSE [w |-> [w3 EXCEPT !.files = insert.files, !.nextId = @ + 1],
              err |-> NoErr, file |-> metadata]

\* FileService.UploadFile.  fault: the first call that fails; rb: the fault of
\* the compensating UpdateStorageUsed; rm: the compensating os.Remove fails;
\* k: bytes io.Copy wrote to the destination before it failed.
FileService_UploadFile(w, userID, fileName, fileData, fault, rb, rm, k) ==
    LET user == GetUserByID(w.users, userID)
        filePath == FilePath(user.username, fileName)
        size == Len(fileData)
        reserve == UpdateStorageUsed(w.users, userID, size, ReserveFault(fault))
        w2 == [w EXCEPT !.users = reserve.users]
        partial == [w2 EXCEPT !.blobs = WriteBlob(@, filePath, SubSeq(fileData, 1, k))]
        w3 == [w2 EXCEPT !.blobs = WriteBlob(@, filePath, fileData)]
        metadata == FileMetadata(w.nextId, userID, fileName, filePath, size, w.nextId)
        insert == CreateFileMetadata(w3.files, metadata, fault = "insert")
        Fail(ww, err) == [w |-> ww, err |-> err, file |-> NoFile]
    IN  IF fault = "getUser" \/ ~HasUser(w.users, userID)
        THEN Fail(w, E(MessageUserNotFound))
        ELSE IF fault = "mkdir"
        THEN Fail(w, Wrap("could not create user directory", FsErr))
        ELSE IF fault = "createTemp"
        THEN Fail(w, Wrap("failed to create temporary file", FsErr))
        ELSE IF fault = "spool"
        THEN Fail(w, Wrap("failed to read file data", FsErr))
        ELSE IF reserve.err # NoErr
        THEN Fail(w, reserve.err)
        ELSE IF fault = "seek"
        THEN Fail(Rollback(w2, userID, size, rb),
                  Wrap("failed to reset file position", FsErr))
        ELSE IF fault = "create"
        THEN Fail(Rollback(w2, userID, size, rb), Wrap("failed to create file", FsErr))
        ELSE IF fault = "copy"
        THEN Fail(TryRemove(Rollback(partial, userID, size, rb), filePath, rm),
                  Wrap("failed to save file", FsErr))
        ELSE IF insert.err # NoErr
        THEN Fail(TryRemove(Rollback(w3, userID, size, rb), filePath, rm),
                  Wrap("failed to save file metadata", insert.err))
        ELSE [w |-> [w3 EXCEPT !.files = insert.files, !.nextId = @ + 1],
              err |-> NoErr, file |-> metadata]

DeleteFaults == {"none", "find", "remove", "reclaimGet", "reclaimUpdate", "deleteMeta"}

\* the fault of the UpdateStorageUsed call of DeleteFile
ReclaimFault(fault) ==
    CASE fault = "reclaimGet" -> "get"
      [] fault = "reclaimUpdate" -> "update"
      [] OTHER -> "none"

\* FileService.DeleteFile.  fault "remove": os.Remove fails with an error
\* other than ErrNotExist.
FileService_DeleteFile(w, fileID, userID, fault) ==
    LET got == GetFileByID(w.files, fileID, userID, fault = "find")
        file == got.file
        w1 == IF file.file_path \in DOMAIN w.blobs
              THEN [w EXCEPT !.blobs = RemoveBlob(@, file.file_path)]
              ELSE w
        reclaim == UpdateStorageUsed(w1.users, userID, -file.size, ReclaimFault(fault))
        w2 == [w1 EXCEPT !.users = reclaim.users]
        del == DeleteFileMetadata(w2.files, fileID, userID, fault = "deleteMeta")
    IN  IF got.err # NoErr THEN [w |-> w, err |-> got.err]
        ELSE IF fault = "remove"
        THEN [w |-> w, err |-> Wrap("failed to delete file", FsErr)]
        ELSE IF reclaim.err # NoErr THEN [w |-> w1, err |-> reclaim.err]
        ELSE [w |-> [w2 EXCEPT !.files = del.files], err |-> del.err]

DownloadFaults == {"none", "find", "open"}

\* FileService.DownloadFile: the display name, the bytes behind the opened
\* handle, the error.  os.Open fails on a missing path and on fault "open".
FileService_DownloadFile(w, fileID, userID, fault) ==
    LET got == GetFileByID(w.files, fileID, userID, fault = "find")
        file == got.file
    IN  IF got.err # NoErr THEN [name |-> "", content |-> <<>>, err |-> got.err]
        ELSE IF fault = "open" \/ file.file_path \notin DOMAIN w.blobs
        THEN [name |-> "", content |-> <<>>, err |-> Wrap("failed to open file", FsErr)]
        ELSE [name |-> file.file_name, content |-> w.blobs[file.file_path], err |-> NoErr]

(***************************** auth ****************************************)
\* a JWT: its user_id claim, whether its HS256 signature was made with the
\* configured secret, whether its exp has passed
Token(userID, signed, expired) ==
    [user_id |-> userID, signed |-> signed, expired |-> expired]

NoToken == Token("", FALSE, FALSE)

\* auth.GenerateToken
GenerateToken(user) == Token(user.id, TRUE, FALSE)

\* auth.ValidateToken: jwt.ParseWithClaims fails on a signature of another key
\* and on an expired token (GenerateToken only writes hex ids, so
\* ObjectIDFromHex cannot fail on a token that carries the signature)
ValidateToken(token) ==
    IF ~token.signed THEN [userID |-> "", err |-> E("signature is invalid")]
    ELSE IF token.expired THEN [userID |-> "", err |-> E("token is expired")]
    ELSE [userID |-> token.user_id, err |-> NoErr]

\* the Authorization header: what stands before the token, and the token
Header(scheme, token) == [scheme |-> scheme, token |-> token]

\* c.GetHeader returns "" when the request has no Authorization header
NoHeader == Header("", NoToken)

\* mutant: the user of the token is not looked up
AuthMiddlewareNoLookup(us, authHeader, fault) ==
    LET valid == ValidateToken(authHeader.token)
        Abort(msg) == [userID |-> "", user |-> NoUser, error |-> E(msg)]
    IN  IF authHeader = NoHeader THEN Abort("Authorization header is required")
        ELSE IF authHeader.scheme # BearerPrefix \/ authHeader.token = NoToken
        THEN Abort("Authorization header format must be Bearer <token>")
        ELSE IF valid.err # NoErr THEN Abort(MessageInvalidToken)
        ELSE [userID |-> valid.userID, user |-> GetUserByID(us, valid.userID),
              error |-> NoErr]

\* handlers.AuthMiddleware: the user it puts in the context, or the error of
\* the 401 it aborts with.  fault: the driver fails in GetUserByID
AuthMiddleware(us, authHeader, fault) ==
    LET valid == ValidateToken(authHeader.token)
        Abort(msg) == [userID |-> "", user |-> NoUser, error |-> E(msg)]
    IN  IF authHeader = NoHeader THEN Abort("Authorization header is required")
        ELSE IF authHeader.scheme # BearerPrefix \/ authHeader.token = NoToken
        THEN Abort("Authorization header format must be Bearer <token>")
        ELSE IF valid.err # NoErr THEN Abort(MessageInvalidToken)
        ELSE IF fault \/ ~HasUser(us, valid.userID) THEN Abort(MessageUserNotFound)
        ELSE [userID |-> valid.userID, user |-> GetUserByID(us, valid.userID),
              error |-> NoErr]

\* the ObjectID of an account that is not in the users collection
GhostUserID == "u3"

\* the Authorization headers of the requests: none, another scheme, a forged
\* token, an expired token, a token of an account that is gone, and the
\* tokens /login issues
AuthHeaders ==
    {NoHeader, Header("Basic ", Token("u1", TRUE, FALSE)),
     Header(BearerPrefix, Token("u1", FALSE, FALSE)),
     Header(BearerPrefix, Token("u1", TRUE, TRUE)),
     Header(BearerPrefix, Token(GhostUserID, TRUE, FALSE))}
    \cup {Header(BearerPrefix, Token(id, TRUE, FALSE)) : id \in UserIDs}

(***************************** config **************************************)
BytesPerMB == 1048576

\* math.Round(n / d * 100), d > 0: the nearest integer, halves away from zero
RoundHundredths(n, d) ==
    IF n >= 0 THEN (200 * n + d) \div (2 * d) ELSE -((200 * (-n) + d) \div (2 * d))

\* config.FormatStorageSize: the float64 a size is reported as, in hundredths
\* (bytes as they are, or megabytes rounded to 2 decimals)
FormatStorageSize(sizeInBytes, inMB) ==
    IF inMB THEN RoundHundredths(sizeInBytes, BytesPerMB) ELSE 100 * sizeInBytes

(***************************** handlers ************************************)
\* the last request served: the operation, the authenticated user, the inputs
\* of the request (file name and body of an upload, file id of the others; an
\* upload that succeeds records the id of the record it created), the fault
\* the environment injected (rb, rm: the faults of the compensating calls of
\* an upload), the error FileService returned, and the HTTP response (status,
\* "error", "message", Content-Disposition filename, body)
Request(op, userID, fileName, fileID, fileData, fault) ==
    [op |-> op, user |-> userID, name |-> fileName, fileID |-> fileID,
     data |-> fileData, fault |-> fault]

Response(req, err, status, error, message, filename, content) ==
    [op |-> req.op, user |-> req.user, name |-> req.name, fileID |-> req.fileID,
     data |-> req.data, fault |-> req.fault, rb |-> "none", rm |-> FALSE,
     err |-> err, status |-> status,
     error |-> error, message |-> message, filename |-> filename, content |-> content]

NoCall == Response(Request("none", "", "", 0, <<>>, "none"), NoErr, 0, NoErr, "", "", <<>>)

\* FileHandler.UploadFile: any error of the service is 400 with err.Error()
UploadResponse(userID, fileName, fileData, fault, r) ==
    IF r.err # NoErr
    THEN Response(Request("Upload", userID, fileName, 0, fileData, fault), r.err,
                  StatusBadRequest, r.err, "", "", <<>>)
    ELSE Response(Request("Upload", userID, fileName, r.file.id, fileData, fault), NoErr,
                  StatusCreated, NoErr, MessageFileUploaded, "", <<>>)

\* FileHandler.DeleteFile: any error of the service is 404 "File not found"
DeleteResponse(userID, fileID, fault, r) ==
    IF r.err # NoErr
    THEN Response(Request("Delete", userID, "", fileID, <<>>, fault), r.err,
                  StatusNotFound, E(MessageFileNotFound), "", "", <<>>)
    ELSE Response(Request("Delete", userID, "", fileID, <<>>, fault), NoErr,
                  StatusOK, NoErr, MessageFileDeleted, "", <<>>)

\* FileHandler.DownloadFile: any error of the service is 404 "File not found"
DownloadResponse(userID, fileID, fault, r) ==
    IF r.err # NoErr
    THEN Response(Request("Download", userID, "", fileID, <<>>, fault), r.err,
                  StatusNotFound, E(MessageFileNotFound), "", "", <<>>)
    ELSE Response(Request("Download", userID, "", fileID, <<>>, fault), NoErr,
                  StatusOK, NoErr, "", r.name, r.content)

\* history: the stores as they were when the last request began, kept while
\* that request is an upload or a delete that succeeded
Snapshot(valid, us, fs, bs) == [valid |-> valid, users |-> us, files |-> fs, blobs |-> bs]
NoSnapshot == Snapshot(FALSE, {}, {}, EmptyBlobs)

Commit(w) ==
    /\ users' = w.users
    /\ files' = w.files
    /\ blobs' = w.blobs
    /\ nextId' = w.nextId

\* the environment: a call fails in at most MaxFaulty requests of a run
Inject(fault) ==
    /\ fault # "none" => faulty < MaxFaulty
    /\ faulty' = IF fault # "none" THEN faulty + 1 ELSE faulty

\* the body of a POST /files request: a multipart form with the field "file",
\* a multipart form without it, a body that is not a multipart form
Forms == {"file", "noFile", "notMultipart"}

\* FileHandler.UploadFile before it calls the service: the 400 of a request
\* without a file
FormError(form) ==
    CASE form = "notMultipart" -> E("Failed to parse form")
      [] form = "noFile" -> E("No file provided")
      [] OTHER -> NoErr

\* POST /files behind AuthMiddleware
FileHandler_UploadFile(userID, form, fileName, fileData, fault, rb, rm, k) ==
    /\ nextId <= MaxId
    /\ Inject(fault)
    /\ IF FormError(form) # NoErr
       THEN /\ last' = Response(Request("Upload", userID, "", 0, <<>>, fault),
                                FormError(form), StatusBadRequest, FormError(form),
                                "", "", <<>>)
            /\ pre' = NoSnapshot
            /\ UNCHANGED <<users, files, blobs, nextId>>
       ELSE \E r \in {FileService_UploadFile(World, userID, fileName, fileData, fault,
                                             rb, rm, k)} :
               /\ Commit(r.w)
               /\ last' = [UploadResponse(userID, fileName, fileData, fault, r)
                               EXCEPT !.rb = rb, !.rm = rm]
               /\ pre' = IF r.err = NoErr THEN Snapshot(TRUE, users, files, blobs)
                         ELSE NoSnapshot

\* DELETE /files/:id
FileHandler_DeleteFile(userID, fileID, fault) ==
    /\ Inject(fault)
    /\ \E r \in {FileService_DeleteFile(World, fileID, userID, fault)} :
        /\ Commit(r.w)
        /\ last' = DeleteResponse(userID, fileID, fault, r)
        /\ pre' = IF r.err = NoErr THEN Snapshot(TRUE, users, files, blobs)
                  ELSE NoSnapshot

\* GET /files/:id/download
FileHandler_DownloadFile(userID, fileID, fault) ==
    /\ Inject(fault)
    /\ \E r \in {FileService_DownloadFile(World, fileID, userID, fault)} :
        last' = DownloadResponse(userID, fileID, fault, r)
    /\ pre' = NoSnapshot
    /\ UNCHANGED <<users, files, blobs, nextId>>

\* the JSON of a FileMetadata: file_path is json:"-", size is formatted when
\* sizes are displayed in MB
FileJSON(f, inMB) ==
    [id |-> f.id, user_id |-> f.user_id, file_name |-> f.file_name,
     size |-> FormatStorageSize(f.size, inMB),
     created_at |-> f.created_at]

\* the JSON body of the last response of GET /files, GET /files/:id and
\* GET /storage/remaining; unit "" when the body has no "unit"
NoBody ==
    [files |-> <<>>, total_items |-> 0, total_pages |-> 0, current_page |-> 0,
     page_size |-> 0, has_next |-> FALSE, has_prev |-> FALSE,
     file |-> FileJSON(NoFile, FALSE), total_storage |-> 0, storage_used |-> 0,
     remaining_storage |-> 0, unit |-> ""]

MaxPageSize == 100

\* int(math.Ceil(float64(totalCount) / float64(pageSize)))
TotalPages(totalCount, pageSize) == (totalCount + pageSize - 1) \div pageSize

\* GET /files?page=&page_size= (a query value strconv.Atoi rejects counts as 0).
\* fault: CountDocuments or Find fails
FileHandler_ListFiles(userID, pageQuery, pageSizeQuery, fault) ==
    LET page == IF pageQuery < 1 THEN DefaultPage ELSE pageQuery
        pageSize == IF pageSizeQuery < 1 \/ pageSizeQuery > MaxPageSize
                    THEN DefaultPageSize ELSE pageSizeQuery
        got == GetFilesByUserIDPaginated(files, userID, page, pageSize)
        totalPages == TotalPages(got.totalCount, pageSize)
        req == Request("List", userID, "", 0, <<>>, IF fault THEN "find" ELSE "none")
    IN  /\ IF fault
           THEN /\ last' = Response(req, StoreErr, StatusInternalServerError,
                                    E("Failed to list files"), "", "", <<>>)
                /\ body' = NoBody
           ELSE /\ last' = Response(req, NoErr, StatusOK, NoErr, "", "", <<>>)
                /\ body' = [NoBody EXCEPT
                       !.files = [i \in 1..Len(got.files) |->
                                     FileJSON(got.files[i], displayInMB)],
                       !.total_items = got.totalCount,
                       !.total_pages = totalPages,
                       !.current_page = page,
                       !.page_size = pageSize,
                       !.has_next = page < totalPages,
                       !.has_prev = page > 1,
                       !.unit = IF displayInMB THEN "MB" ELSE ""]
        /\ pre' = NoSnapshot
        /\ UNCHANGED <<users, files, blobs, nextId, faulty>>

\* the :id of a path that is not 24 hex digits
InvalidFileID == -1

\* primitive.ObjectIDFromHex
ObjectIDFromHex(fileIDStr) ==
    IF fileIDStr = InvalidFileID THEN [id |-> 0, err |-> E("invalid hex")]
    ELSE [id |-> fileIDStr, err |-> NoErr]

\* GET /files/:id
FileHandler_GetFile(userID, fileIDStr, fault) ==
    LET parsed == ObjectIDFromHex(fileIDStr)
        got == GetFileByID(files, parsed.id, userID, fault)
        req == Request("Get", userID, "", fileIDStr, <<>>,
                       IF fault THEN "find" ELSE "none")
    IN  /\ IF parsed.err # NoErr
           THEN /\ last' = Response(req, parsed.err, StatusBadRequest,
                                    E("Invalid file ID"), "", "", <<>>)
                /\ body' = NoBody
           ELSE IF got.err # NoErr
           THEN /\ last' = Response(req, got.err, StatusNotFound,
                                    E(MessageFileNotFound), "", "", <<>>)
                /\ body' = NoBody
           ELSE /\ last' = Response(req, NoErr, StatusOK, NoErr, "", "", <<>>)
                /\ body' = [NoBody EXCEPT
                       !.file = FileJSON(got.file, displayInMB),
                       !.unit = IF displayInMB THEN "MB" ELSE ""]
        /\ pre' = NoSnapshot
        /\ UNCHANGED <<users, files, blobs, nextId, faulty>>

\* mutant: the remainder is taken the wrong way round
RemainingStorageReversed(user) == user.storage_used - user.storage_limit

\* FileHandler.GetRemainingStorage: remainingStorage
RemainingStorage(user) == user.storage_limit - user.storage_used

\* GET /storage/remaining; user: the document AuthMiddleware put in the context
FileHandler_GetRemainingStorage(user) ==
    /\ last' = Response(Request("Remaining", user.id, "", 0, <<>>, "none"), NoErr,
                        StatusOK, NoErr, "", "", <<>>)
    /\ body' = [NoBody EXCEPT
           !.total_storage = FormatStorageSize(user.storage_limit, displayInMB),
           !.storage_used = FormatStorageSize(user.storage_used, displayInMB),
           !.remaining_storage = FormatStorageSize(RemainingStorage(user), displayInMB),
           !.unit = IF displayInMB THEN "MB" ELSE "bytes"]
    /\ pre' = NoSnapshot
    /\ UNCHANGED <<users, files, blobs, nextId, faulty>>

\* the endpoints of the protected group of router.SetupRouter
ProtectedEndpoints == {"Upload", "List", "Get", "Download", "Delete", "Remaining"}

\* a request AuthMiddleware aborts: 401, and the handler does not run
Abort(endpoint, authHeader, fault) ==
    LET a == AuthMiddleware(users, authHeader, fault)
        injected == IF fault THEN "getUser" ELSE "none"
    IN  /\ a.error # NoErr
        /\ last' = Response(Request(endpoint, "", "", 0, <<>>, injected), a.error,
                            StatusUnauthorized, a.error, "", "", <<>>)
        /\ authz' = authHeader
        /\ body' = NoBody
        /\ pre' = NoSnapshot
        /\ UNCHANGED <<users, files, blobs, nextId, faulty>>

\* the goroutines of SpecSteps and SpecAuth; none runs in Spec and SpecApi
Procs == {"p1", "p2"}
Idle == [p \in Procs |-> [pc |-> "idle"]]

(***************************** specification *******************************)
\* two accounts, created with StorageUsed 0 (RegisterUser, createTestUser)
Init ==
    /\ users = {User("u1", "alice", HashPassword("pw1"), LimitA, 0),
                User("u2", "bob", HashPassword("pw2"), LimitB, 0)}
    /\ files = {}
    /\ blobs = EmptyBlobs
    /\ nextId = 1
    /\ last = NoCall
    /\ pre = NoSnapshot
    /\ faulty = 0
    /\ authz = NoHeader
    /\ body = NoBody
    /\ displayInMB = FALSE
    /\ procs = Idle

\* the inputs of one upload: the compensation inputs rb and rm are drawn only
\* where the compensation runs, k only where a partial file can stay behind
RollbackInputs(fault) ==
    IF fault \in {"seek", "create", "copy", "insert"} THEN UpdateFaults ELSE {"none"}

RemoveInputs(fault) == IF fault \in {"copy", "insert"} THEN BOOLEAN ELSE {FALSE}

PartialInputs(fileData, fault, rm) ==
    IF fault = "copy" /\ rm THEN 0..Len(fileData) ELSE {0}

\* the requests AuthMiddleware passes on to the handler, c.Next()
Authorized(authHeader) == AuthMiddleware(users, authHeader, FALSE).error = NoErr
ContextUser(authHeader) == AuthMiddleware(users, authHeader, FALSE).user

\* what a handler that writes no JSON body leaves of the request
Served(authHeader) ==
    /\ authz' = authHeader
    /\ body' = NoBody
    /\ UNCHANGED <<displayInMB, procs>>

\* the forms of an upload: a request without a file has nothing else to say
FormInputs(fault) == IF fault = "none" THEN Forms ELSE {"file"}
NameInputs(form) == IF form = "file" THEN FileNames ELSE {""}
ContentInputs(form) == IF form = "file" THEN Contents ELSE {<<>>}

Upload ==
    \E authHeader \in AuthHeaders :
        /\ Authorized(authHeader)
        /\ Served(authHeader)
        /\ \E fault \in UploadFaults :
            \E form \in FormInputs(fault) :
            \E fileName \in NameInputs(form), fileData \in ContentInputs(form) :
            \E rb \in RollbackInputs(fault), rm \in RemoveInputs(fault) :
            \E k \in PartialInputs(fileData, fault, rm) :
                FileHandler_UploadFile(ContextUser(authHeader).id, form, fileName,
                                       fileData, fault, rb, rm, k)

Delete ==
    \E authHeader \in AuthHeaders :
        /\ Authorized(authHeader)
        /\ Served(authHeader)
        /\ \E fileID \in FileIDs, fault \in DeleteFaults :
              FileHandler_DeleteFile(ContextUser(authHeader).id, fileID, fault)

Download ==
    \E authHeader \in AuthHeaders :
        /\ Authorized(authHeader)
        /\ Served(authHeader)
        /\ \E fileID \in FileIDs, fault \in DownloadFaults :
              FileHandler_DownloadFile(ContextUser(authHeader).id, fileID, fault)

Next == Upload \/ Delete \/ Download

Spec == Init /\ [][Next]_vars

\* the runs in which no store or filesystem call fails
NextFaultFree == Next /\ faulty' = faulty

SpecFaultFree == Init /\ [][NextFaultFree]_vars

\* the query values (page, page_size) of GET /files
PageQueries == {<<0, 0>>, <<1, 1>>, <<2, 1>>, <<1, MaxPageSize + 1>>}

\* a failing store call of a read-only request or of AuthMiddleware leaves
\* nothing behind and is not counted in faulty
ListInputs == {<<q, FALSE>> : q \in PageQueries} \cup {<<<<0, 0>>, TRUE>>}
GetInputs == {<<id, FALSE>> : id \in FileIDs \cup {InvalidFileID}} \cup {<<1, TRUE>>}

ListFiles ==
    \E authHeader \in AuthHeaders :
        /\ Authorized(authHeader)
        /\ authz' = authHeader
        /\ UNCHANGED <<displayInMB, procs>>
        /\ \E in \in ListInputs :
              FileHandler_ListFiles(ContextUser(authHeader).id, in[1][1], in[1][2],
                                    in[2])

GetFile ==
    \E authHeader \in AuthHeaders :
        /\ Authorized(authHeader)
        /\ authz' = authHeader
        /\ UNCHANGED <<displayInMB, procs>>
        /\ \E in \in GetInputs :
              FileHandler_GetFile(ContextUser(authHeader).id, in[1], in[2])

GetRemainingStorage ==
    \E authHeader \in AuthHeaders :
        /\ Authorized(authHeader)
        /\ authz' = authHeader
        /\ UNCHANGED <<displayInMB, procs>>
        /\ FileHandler_GetRemainingStorage(ContextUser(authHeader))

Unauthorized ==
    \E endpoint \in ProtectedEndpoints, authHeader \in AuthHeaders, fault \in BOOLEAN :
        /\ Abort(endpoint, authHeader, fault)
        /\ UNCHANGED <<displayInMB, procs>>

\* the server started with display_in_mb on or off
InitApi ==
    /\ users = {User("u1", "alice", HashPassword("pw1"), LimitA, 0),
                User("u2", "bob", HashPassword("pw2"), LimitB, 0)}
    /\ files = {}
    /\ blobs = EmptyBlobs
    /\ nextId = 1
    /\ last = NoCall
    /\ pre = NoSnapshot
    /\ faulty = 0
    /\ authz = NoHeader
    /\ body = NoBody
    /\ displayInMB \in BOOLEAN
    /\ procs = Idle

\* uploads, deletes and downloads in which no call fails, the read-only
\* endpoints, the requests turned away
NextApi ==
    \/ NextFaultFree
    \/ ListFiles
    \/ GetFile
    \/ GetRemainingStorage
    \/ Unauthorized

SpecApi == InitApi /\ [][NextApi]_vars

(***************************** /register and /login ************************)
Usernames == {"alice", "bob"}

\* config.GetMaxStoragePerUser when the configuration names no limit
DefaultStoragePerUser == 104857600

\* the ObjectID InsertOne gives the n-th document
NewUserID(n) == "u" \o ToString(n)

\* the write error of InsertOne on the unique index of username
DuplicateKeyErr == E("E11000 duplicate key error")

\* a goroutine serving /register or /login: where it is, the request it
\* serves, and the response once it has returned
AuthProc(pc, op, username, password, status, error, message, token) ==
    [pc |-> pc, op |-> op, username |-> username, password |-> password,
     status |-> status, error |-> error, message |-> message, token |-> token]

IdleAuth == AuthProc("idle", "", "", "", 0, NoErr, "", NoToken)

\* c.JSON of an AuthHandler and return
AuthReturn(p, op, username, password, status, error, message, token) ==
    procs' = [procs EXCEPT ![p] = AuthProc("done", op, username, password, status,
                                           error, message, token)]

\* userCollection.CountDocuments({username: username})
CountDocuments(us, username) == Cardinality({u \in us : u.username = username})

RegisterFaults == {"none", "bind", "hash", "count"}

\* AuthHandler.RegisterUser up to the CountDocuments of models.CreateUser.
\* fault: ShouldBindJSON rejects the body, bcrypt fails, the driver fails
AuthHandler_RegisterUser(p, username, password, fault) ==
    /\ procs[p].pc \in {"idle", "done"}
    /\ nextId + Cardinality({q \in Procs : procs[q].pc = "insert"}) <= MaxId
    /\ Inject(fault)
    /\ IF fault = "bind"
       THEN AuthReturn(p, "Register", username, password, StatusBadRequest,
                       E(MessageInvalidRequest), "", NoToken)
       ELSE IF fault = "hash"
       THEN AuthReturn(p, "Register", username, password, StatusInternalServerError,
                       E("Failed to process password"), "", NoToken)
       ELSE IF fault = "count"
       THEN AuthReturn(p, "Register", username, password, StatusBadRequest,
                       StoreErr, "", NoToken)
       ELSE IF CountDocuments(users, username) > 0
       THEN AuthReturn(p, "Register", username, password, StatusBadRequest,
                       E(MessageUserExists), "", NoToken)
       ELSE procs' = [procs EXCEPT ![p] = AuthProc("insert", "Register", username,
                                                   password, 0, NoErr, "", NoToken)]
    /\ UNCHANGED <<users, nextId>>

\* userCollection.InsertOne under the unique index InitMongoDB creates
InsertUser(us, user, fault) ==
    IF fault THEN [users |-> us, err |-> StoreErr]
    ELSE IF \E u \in us : u.username = user.username
    THEN [users |-> us, err |-> DuplicateKeyErr]
    ELSE [users |-> us \cup {user}, err |-> NoErr]

\* models.CreateUser from InsertOne on, and the response of RegisterUser
AuthHandler_RegisterUser_Insert(p, fault) ==
    /\ procs[p].pc = "insert"
    /\ Inject(IF fault THEN "insert" ELSE "none")
    /\ LET req == procs[p]
           user == User(NewUserID(nextId), req.username, HashPassword(req.password),
                        DefaultStoragePerUser, 0)
           ins == InsertUser(users, user, fault)
       IN  /\ users' = ins.users
           /\ nextId' = IF ins.err = NoErr THEN nextId + 1 ELSE nextId
           /\ IF ins.err # NoErr
              THEN AuthReturn(p, "Register", req.username, req.password,
                              StatusBadRequest, ins.err, "", NoToken)
              ELSE AuthReturn(p, "Register", req.username, req.password,
                              StatusCreated, NoErr, MessageUserCreated, NoToken)

\* models.GetUserByUsername
GetUserByUsername(us, username, fault) ==
    IF fault THEN [user |-> NoUser, err |-> StoreErr]
    ELSE IF \E u \in us : u.username = username
    THEN [user |-> CHOOSE u \in us : u.username = username, err |-> NoErr]
    ELSE [user |-> NoUser, err |-> E(MessageUserNotFound)]

LoginFaults == {"none", "bind", "find", "sign"}

\* AuthHandler.LoginUser.  fault "sign": GenerateToken fails
AuthHandler_LoginUser(p, username, password, fault) ==
    LET got == GetUserByUsername(users, username, fault = "find")
    IN  /\ procs[p].pc \in {"idle", "done"}
        /\ Inject(fault)
        /\ IF fault = "bind"
           THEN AuthReturn(p, "Login", username, password, StatusBadRequest,
                           E(MessageInvalidRequest), "", NoToken)
           ELSE IF got.err # NoErr
           THEN AuthReturn(p, "Login", username, password, StatusUnauthorized,
                           E(MessageInvalidCredentials), "", NoToken)
           ELSE IF ~CheckPasswordHash(password, got.user.password)
           THEN AuthReturn(p, "Login", username, password, StatusUnauthorized,
                           E(MessageInvalidCredentials), "", NoToken)
           ELSE IF fault = "sign"
           THEN AuthReturn(p, "Login", username, password, StatusInternalServerError,
                           E("Failed to generate authentication token"), "", NoToken)
           ELSE AuthReturn(p, "Login", username, password, StatusOK, NoErr, "",
                           GenerateToken(got.user))
        /\ UNCHANGED <<users, nextId>>

\* an empty users collection behind a server that has served nothing
InitAuth ==
    /\ users = {}
    /\ files = {}
    /\ blobs = EmptyBlobs
    /\ nextId = 1
    /\ last = NoCall
    /\ pre = NoSnapshot
    /\ faulty = 0
    /\ authz = NoHeader
    /\ body = NoBody
    /\ displayInMB = FALSE
    /\ procs = [p \in Procs |-> IdleAuth]

AuthUnchanged == UNCHANGED <<files, blobs, last, pre, authz, body, displayInMB>>

Register ==
    \E p \in Procs, username \in Usernames, password \in Passwords,
       fault \in RegisterFaults :
        AuthHandler_RegisterUser(p, username, password, fault) /\ AuthUnchanged

RegisterInsert ==
    \E p \in Procs, fault \in BOOLEAN :
        AuthHandler_RegisterUser_Insert(p, fault) /\ AuthUnchanged

Login ==
    \E p \in Procs, username \in Usernames, password \in Passwords,
       fault \in LoginFaults :
        AuthHandler_LoginUser(p, username, password, fault) /\ AuthUnchanged

NextAuth == Register \/ RegisterInsert \/ Login

SpecAuth == InitAuth /\ [][NextAuth]_vars

\* the runs of /register and /login in which no call fails
NextAuthFaultFree == NextAuth /\ faulty' = faulty

SpecAuthFaultFree == InitAuth /\ [][NextAuthFaultFree]_vars

(***************************** interleaved requests ************************)
\* a goroutine inside FileService.UploadFile or FileService.DeleteFile: the
\* call it makes next (pc), the request, the record it works on, and inside
\* models.UpdateStorageUsed the sizeChange, the user document it read and the
\* call that follows; err: the error UploadFile returns after compensating
StepProc(pc, op, userID, fileName, fileData, file, change, read, after, err) ==
    [pc |-> pc, op |-> op, user |-> userID, name |-> fileName, data |-> fileData,
     file |-> file, change |-> change, read |-> read, after |-> after, err |-> err]

IdleStep == StepProc("idle", "", "", "", <<>>, NoFile, 0, NoUser, "", NoErr)

InFlightUploads == {q \in Procs : procs[q].pc # "idle" /\ procs[q].op = "Upload"}

\* the handler writes the response and the goroutine is free again
StepReturn(p, response) ==
    /\ procs' = [procs EXCEPT ![p] = IdleStep]
    /\ last' = response

\* UploadFile lines 48-74: GetUserByID, the user directory, the spool that
\* measures size; next is UpdateStorageUsed(userID, size)
Step_UploadFile_Spool(p, userID, fileName, fileData) ==
    LET user == GetUserByID(users, userID)
        file == FileMetadata(0, userID, fileName, FilePath(user.username, fileName),
                             Len(fileData), 0)
    IN  /\ procs[p].pc = "idle"
        /\ nextId + Cardinality(InFlightUploads) <= MaxId
        /\ procs' = [procs EXCEPT ![p] =
               StepProc("getUser", "Upload", userID, fileName, fileData, file,
                        Len(fileData), NoUser, "create", NoErr)]
        /\ UNCHANGED <<users, files, blobs, nextId, last, faulty>>

\* UpdateStorageUsed lines 172-186: GetUserByID, newSize and the limit check.
\* Only the reservation of an upload has sizeChange > 0 and can be refused
Step_UpdateStorageUsed_GetUserByID(p) ==
    LET me == procs[p]
        user == GetUserByID(users, me.user)
    IN  /\ me.pc = "getUser"
        /\ IF ExceedsLimit(user, me.change)
           THEN StepReturn(p, UploadResponse(me.user, me.name, me.data, "none",
                                 [err |-> E(MessageStorageLimitExceeded), file |-> NoFile]))
           ELSE /\ procs' = [procs EXCEPT ![p].pc = "updateOne", ![p].read = user]
                /\ UNCHANGED last
        /\ UNCHANGED <<users, files, blobs, nextId, faulty>>

\* UpdateStorageUsed lines 189-198: UpdateOne sets the newSize computed from
\* the document read before
Step_UpdateStorageUsed_UpdateOne(p) ==
    LET me == procs[p]
    IN  /\ me.pc = "updateOne"
        /\ users' = SetStorageUsed(users, me.user, NewStorageUsed(me.read, me.change))
        /\ procs' = [procs EXCEPT ![p].pc = me.after]
        /\ UNCHANGED <<files, blobs, nextId, last, faulty>>

\* UploadFile lines 82-104: Seek, os.Create, io.Copy.  fault: io.Copy fails
\* after k bytes, and the compensation starts with UpdateStorageUsed(-size)
Step_UploadFile_Copy(p, fault, k) ==
    LET me == procs[p]
    IN  /\ me.pc = "create"
        /\ Inject(IF fault THEN "copy" ELSE "none")
        /\ IF fault
           THEN /\ blobs' = WriteBlob(blobs, me.file.file_path, SubSeq(me.data, 1, k))
                /\ procs' = [procs EXCEPT ![p].pc = "getUser",
                                          ![p].change = -me.file.size,
                                          ![p].after = "osRemove",
                                          ![p].err = Wrap("failed to save file", FsErr)]
           ELSE /\ blobs' = WriteBlob(blobs, me.file.file_path, me.data)
                /\ procs' = [procs EXCEPT ![p].pc = "insert"]
        /\ UNCHANGED <<users, files, nextId, last>>

\* UploadFile lines 107-122: CreateFileMetadata, and the return of the record
Step_UploadFile_CreateFileMetadata(p, fault) ==
    LET me == procs[p]
        metadata == FileMetadata(nextId, me.user, me.name, me.file.file_path,
                                 me.file.size, nextId)
        insert == CreateFileMetadata(files, metadata, fault)
    IN  /\ me.pc = "insert"
        /\ Inject(IF fault THEN "insert" ELSE "none")
        /\ files' = insert.files
        /\ IF insert.err # NoErr
           THEN /\ procs' = [procs EXCEPT ![p].pc = "getUser",
                                          ![p].change = -me.file.size,
                                          ![p].after = "osRemove",
                                          ![p].err = Wrap("failed to save file metadata",
                                                          insert.err)]
                /\ UNCHANGED <<nextId, last>>
           ELSE /\ nextId' = nextId + 1
                /\ StepReturn(p, UploadResponse(me.user, me.name, me.data, "none",
                                      [err |-> NoErr, file |-> metadata]))
        /\ UNCHANGED <<users, blobs>>

\* a variant of the step below that runs the compensation again instead of
\* returning
Step_UploadFile_RemoveRetried(p) ==
    /\ procs[p].pc = "osRemove"
    /\ procs' = [procs EXCEPT ![p].pc = "getUser"]
    /\ UNCHANGED <<users, files, blobs, nextId, last, faulty>>

\* UploadFile lines 102 and 118: os.Remove(filePath) after the rollback, and
\* the return of the error
Step_UploadFile_Remove(p) ==
    LET me == procs[p]
    IN  /\ me.pc = "osRemove"
        /\ blobs' = IF me.file.file_path \in DOMAIN blobs
                    THEN RemoveBlob(blobs, me.file.file_path) ELSE blobs
        /\ StepReturn(p, UploadResponse(me.user, me.name, me.data, "injected",
                              [err |-> me.err, file |-> NoFile]))
        /\ UNCHANGED <<users, files, nextId, faulty>>

\* DeleteFile line 128: GetFileByID
Step_DeleteFile_GetFileByID(p, userID, fileID) ==
    LET got == GetFileByID(files, fileID, userID, FALSE)
    IN  /\ procs[p].pc = "idle"
        /\ IF got.err # NoErr
           THEN StepReturn(p, DeleteResponse(userID, fileID, "none", [err |-> got.err]))
           ELSE /\ procs' = [procs EXCEPT ![p] =
                       StepProc("remove", "Delete", userID, "", <<>>, got.file,
                                -got.file.size, NoUser, "deleteMeta", NoErr)]
                /\ UNCHANGED last
        /\ UNCHANGED <<users, files, blobs, nextId, faulty>>

\* DeleteFile line 134: os.Remove, a missing file is not an error; next is
\* UpdateStorageUsed(userID, -file.Size)
Step_DeleteFile_Remove(p) ==
    LET me == procs[p]
    IN  /\ me.pc = "remove"
        /\ blobs' = IF me.file.file_path \in DOMAIN blobs
                    THEN RemoveBlob(blobs, me.file.file_path) ELSE blobs
        /\ procs' = [procs EXCEPT ![p].pc = "getUser"]
        /\ UNCHANGED <<users, files, nextId, last, faulty>>

\* DeleteFile line 144: DeleteFileMetadata, whose error is the result
Step_DeleteFile_DeleteFileMetadata(p) ==
    LET me == procs[p]
        del == DeleteFileMetadata(files, me.file.id, me.user, FALSE)
    IN  /\ me.pc = "deleteMeta"
        /\ files' = del.files
        /\ StepReturn(p, DeleteResponse(me.user, me.file.id, "none", [err |-> del.err]))
        /\ UNCHANGED <<users, blobs, nextId, faulty>>

\* two goroutines, both idle, over the two accounts
InitSteps ==
    /\ users = {User("u1", "alice", HashPassword("pw1"), LimitA, 0),
                User("u2", "bob", HashPassword("pw2"), LimitB, 0)}
    /\ files = {}
    /\ blobs = EmptyBlobs
    /\ nextId = 1
    /\ last = NoCall
    /\ pre = NoSnapshot
    /\ faulty = 0
    /\ authz = NoHeader
    /\ body = NoBody
    /\ displayInMB = FALSE
    /\ procs = [p \in Procs |-> IdleStep]

StepsUnchanged == UNCHANGED <<pre, authz, body, displayInMB>>

UploadSpool ==
    \E p \in Procs, userID \in UserIDs, fileName \in FileNames, fileData \in Contents :
        Step_UploadFile_Spool(p, userID, fileName, fileData) /\ StepsUnchanged

LedgerGetUser ==
    \E p \in Procs : Step_UpdateStorageUsed_GetUserByID(p) /\ StepsUnchanged

LedgerUpdateOne ==
    \E p \in Procs : Step_UpdateStorageUsed_UpdateOne(p) /\ StepsUnchanged

UploadCopy ==
    \E p \in Procs, fault \in BOOLEAN :
        \E k \in IF fault THEN 0..Len(procs[p].data) ELSE {0} :
            Step_UploadFile_Copy(p, fault, k) /\ StepsUnchanged

UploadInsert ==
    \E p \in Procs, fault \in BOOLEAN :
        Step_UploadFile_CreateFileMetadata(p, fault) /\ StepsUnchanged

UploadUndoRemove ==
    \E p \in Procs : Step_UploadFile_Remove(p) /\ StepsUnchanged

DeleteFind ==
    \E p \in Procs, userID \in UserIDs, fileID \in FileIDs :
        Step_DeleteFile_GetFileByID(p, userID, fileID) /\ StepsUnchanged

DeleteRemove ==
    \E p \in Procs : Step_DeleteFile_Remove(p) /\ StepsUnchanged

DeleteRecord ==
    \E p \in Procs : Step_DeleteFile_DeleteFileMetadata(p) /\ StepsUnchanged

NextSteps ==
    \/ UploadSpool
    \/ LedgerGetUser
    \/ LedgerUpdateOne
    \/ UploadCopy
    \/ UploadInsert
    \/ UploadUndoRemove
    \/ DeleteFind
    \/ DeleteRemove
    \/ DeleteRecord

SpecSteps == InitSteps /\ [][NextSteps]_vars

\* the interleavings in which no call fails
NextStepsFaultFree == NextSteps /\ faulty' = faulty

SpecStepsFaultFree == InitSteps /\ [][NextStepsFaultFree]_vars

\* one goroutine: the requests run one after the other, a step per call
NextStepsSolo == NextSteps /\ procs'["p2"] = IdleStep

SpecStepsSolo == InitSteps /\ [][NextStepsSolo]_vars

(***************************** the quota ledger alone **********************)
\* a call of models.UpdateStorageUsed and what it returned
LedgerCall(userID, sizeChange, fault, err) ==
    [op |-> "Reserve", user |-> userID, delta |-> sizeChange, fault |-> fault,
     err |-> err]

\* models.UpdateStorageUsed(userID, sizeChange), called as FileService calls
\* it: for a stored account, one call at a time
Reserve ==
    \E userID \in UserIDs, sizeChange \in (-MaxDelta)..MaxDelta, fault \in UpdateFaults :
        \E r \in {UpdateStorageUsed(users, userID, sizeChange, fault)} :
            /\ users' = r.users
            /\ last' = LedgerCall(userID, sizeChange, fault, r.err)
            /\ UNCHANGED <<files, blobs, nextId, pre, faulty, authz, body,
                           displayInMB, procs>>

NextLedger == Reserve

SpecLedger == Init /\ [][NextLedger]_vars

(***************************** properties **********************************)
StorageUsed(us, userID) == GetUserByID(us, userID).storage_used
StorageLimit(us, userID) == GetUserByID(us, userID).storage_limit
Username(us, userID) == GetUserByID(us, userID).username

\* every account but userID is as it was
OthersUnchanged(userID) == \A u \in users : u.id # userID => u \in users'

\* the faults of an upload that let it reach the limit check of UpdateStorageUsed
PastSpool == {"none", "reserveUpdate", "seek", "create", "copy", "insert"}

UploadSucceeded == last'.op = "Upload" /\ last'.err = NoErr
DeleteSucceeded == last'.op = "Delete" /\ last'.err = NoErr

\* C1: for every user, after every completed upload or delete, whether it
\* returned success or an error, 0 <= storage_used <= storage_limit.
C1_StorageUsedWithinLimit ==
    \A u \in users : 0 <= u.storage_used /\ u.storage_used <= u.storage_limit

\* a delete that returned an error left its user at usage 0 with a live record
C1_Witness ==
    /\ last.op = "Delete"
    /\ last.err # NoErr
    /\ StorageUsed(users, last.user) = 0
    /\ \E f \in files : f.user_id = last.user /\ f.size > 0

\* C2: an upload whose measured size would take storage_used over
\* storage_limit fails with "Storage limit exceeded" (HTTP 400) and leaves the
\* accounts, the file records and the blobs as they were.
C2_QuotaExceededChangesNothing ==
    [][(/\ last'.op = "Upload"
        /\ last'.fault \in PastSpool
        /\ StorageUsed(users, last'.user) + Len(last'.data)
             > StorageLimit(users, last'.user))
       => (/\ last'.err = E(MessageStorageLimitExceeded)
           /\ last'.status = StatusBadRequest
           /\ last'.error = E(MessageStorageLimitExceeded)
           /\ users' = users
           /\ files' = files
           /\ blobs' = blobs)]_vars

\* the test's scenario: the first upload of an account is over its limit
C2_Witness ==
    /\ last.op = "Upload"
    /\ last.err = E(MessageStorageLimitExceeded)
    /\ Len(last.data) > StorageLimit(users, last.user)
    /\ StorageUsed(users, last.user) = 0
    /\ files = {}
    /\ blobs = EmptyBlobs

\* C3: an upload under the name of a live file of the same user fails with
\* "File with the same name already exists", and the first file's record, its
\* blob and the user's storage_used stay as they were.
C3_DuplicateNameRejected ==
    [][(/\ last'.op = "Upload"
        /\ last'.fault = "none"
        /\ FileExistsByName(files, last'.user, last'.name))
       => (/\ last'.err = E(MessageFileDuplicate)
           /\ files' = files
           /\ blobs' = blobs
           /\ users' = users)]_vars

\* C4: a successful delete by the owner takes the record's size off
\* storage_used (not below 0), removes the blob and removes the record; another
\* delete of the same id right after it is "File not found" and changes nothing.
C4_DeleteReclaimsAndRemoves ==
    [][/\ DeleteSucceeded =>
            \E f \in files :
                /\ f.id = last'.fileID
                /\ f.user_id = last'.user
                /\ files' = files \ {f}
                /\ DOMAIN blobs' = DOMAIN blobs \ {f.file_path}
                /\ \A p \in DOMAIN blobs' : blobs'[p] = blobs[p]
                /\ StorageUsed(users', f.user_id) =
                      IF StorageUsed(users, f.user_id) - f.size < 0 THEN 0
                      ELSE StorageUsed(users, f.user_id) - f.size
                /\ OthersUnchanged(f.user_id)
       /\ (/\ last.op = "Delete"
           /\ last.err = NoErr
           /\ last'.op = "Delete"
           /\ last'.fileID = last.fileID)
          => (/\ last'.fault = "none" => last'.err = E(MessageFileNotFound)
              /\ last'.err # NoErr
              /\ last'.status = StatusNotFound
              /\ last'.error = E(MessageFileNotFound)
              /\ users' = users
              /\ files' = files
              /\ blobs' = blobs)]_vars

\* a delete of an id that was handed out and whose record is gone: not found
C4_Witness ==
    /\ last.op = "Delete"
    /\ last.err = E(MessageFileNotFound)
    /\ last.fileID < nextId
    /\ ~\E f \in files : f.id = last.fileID

\* C5: a successful upload of n bytes under name f by user U creates exactly
\* one record, of owner U, name f and size n, adds exactly n to
\* storage_used(U), and U's listing then shows the file with that name and size.
C5_UploadCreatesOneRecord ==
    [][UploadSucceeded =>
        \E r \in files' :
            /\ r \notin files
            /\ files' = files \cup {r}
            /\ r.id = last'.fileID
            /\ r.user_id = last'.user
            /\ r.file_name = last'.name
            /\ r.size = Len(last'.data)
            /\ StorageUsed(users', r.user_id) = StorageUsed(users, r.user_id) + r.size
            /\ last'.status = StatusCreated
            /\ LET list == GetFilesByUserIDPaginated(files', r.user_id, DefaultPage,
                                                     DefaultPageSize)
               IN  /\ list.totalCount = Cardinality(GetFilesByUserID(files, r.user_id)) + 1
                   /\ \E i \in 1..Len(list.files) :
                        /\ list.files[i].id = r.id
                        /\ list.files[i].file_name = last'.name
                        /\ list.files[i].size = Len(last'.data)]_vars

\* an upload of a non-empty body succeeded
C5_Witness ==
    /\ last.op = "Upload"
    /\ last.err = NoErr
    /\ Len(last.data) > 0
    /\ StorageUsed(users, last.user) = Len(last.data)
    /\ \E f \in files : f.id = last.fileID /\ f.size = Len(last.data)

\* the ids no record of the collection has
AbsentIDs == {i \in 0..(MaxId + 1) : ~\E f \in files : f.id = i}

\* what a client sees of a download
Seen(resp) == [status |-> resp.status, error |-> resp.error, message |-> resp.message,
               filename |-> resp.filename, content |-> resp.content]

\* the last request is a download of a live file of another user
CrossUserDownload ==
    /\ last.op = "Download"
    /\ \E f \in files : f.id = last.fileID /\ f.user_id # last.user

\* C6: a download of a live file of another user fails with "File not found",
\* returns no content, and cannot be told from a download of an id no file has.
C6_CrossUserDownloadIsNotFound ==
    CrossUserDownload =>
        /\ last.fault = "none" => last.err = E(MessageFileNotFound)
        /\ last.err # NoErr
        /\ last.status = StatusNotFound
        /\ last.error = E(MessageFileNotFound)
        /\ last.filename = ""
        /\ last.content = <<>>
        /\ \A id \in AbsentIDs :
              LET r == FileService_DownloadFile(World, id, last.user, last.fault)
              IN  /\ r.err = last.err
                  /\ Seen(DownloadResponse(last.user, id, last.fault, r)) = Seen(last)

\* the other user's file is live and has its blob
C6_Witness ==
    /\ last.op = "Download"
    /\ last.fault = "none"
    /\ last.err = E(MessageFileNotFound)
    /\ \E f \in files :
          /\ f.id = last.fileID
          /\ f.user_id # last.user
          /\ f.file_path \in DOMAIN blobs

\* C7: a delete of a file of another user fails with "File not found" and
\* leaves the owner's blob, record and storage_used and the caller's
\* storage_used as they were.
C7_CrossUserDeleteChangesNothing ==
    [][(/\ last'.op = "Delete"
        /\ \E f \in files : f.id = last'.fileID /\ f.user_id # last'.user)
       => (/\ last'.fault = "none" => last'.err = E(MessageFileNotFound)
           /\ last'.err # NoErr
           /\ last'.status = StatusNotFound
           /\ users' = users
           /\ files' = files
           /\ blobs' = blobs)]_vars

\* the other user's file is still live, with its blob and its usage
C7_Witness ==
    /\ last.op = "Delete"
    /\ last.fault = "none"
    /\ last.err = E(MessageFileNotFound)
    /\ \E f \in files :
          /\ f.id = last.fileID
          /\ f.user_id # last.user
          /\ f.file_path \in DOMAIN blobs
          /\ StorageUsed(users, f.user_id) = f.size
          /\ f.size > 0

\* C8: a successful upload followed by a successful delete of the file it
\* created puts storage_used, the file records and the blobs back to what they
\* were before the upload.
C8_UploadThenDeleteRestores ==
    [][(/\ last.op = "Upload"
        /\ last.err = NoErr
        /\ pre.valid
        /\ last'.op = "Delete"
        /\ last'.err = NoErr
        /\ last'.user = last.user
        /\ last'.fileID = last.fileID)
       => (/\ users' = pre.users
           /\ files' = pre.files
           /\ blobs' = pre.blobs)]_vars

\* C9: no two live records of one owner have the same file name.
C9_NamesUniquePerOwner ==
    \A f, g \in files : (f.user_id = g.user_id /\ f.file_name = g.file_name) => f = g

\* C10: an upload returns success only with the reservation, the blob at the
\* final location and the record all applied; a delete returns success only
\* with the blob absent, the quota reclaimed and the record removed.
C10_SuccessMeansAllApplied ==
    [][/\ UploadSucceeded =>
            LET path == FilePath(Username(users, last'.user), last'.name)
                size == Len(last'.data)
            IN  /\ StorageUsed(users', last'.user) = StorageUsed(users, last'.user) + size
                /\ path \in DOMAIN blobs'
                /\ blobs'[path] = last'.data
                /\ \E r \in files' \ files :
                      /\ r.id = last'.fileID
                      /\ r.user_id = last'.user
                      /\ r.file_path = path
                      /\ r.size = size
       /\ DeleteSucceeded =>
            \E f \in files :
                /\ f.id = last'.fileID
                /\ f.file_path \notin DOMAIN blobs'
                /\ StorageUsed(users', last'.user) =
                      IF StorageUsed(users, last'.user) < f.size THEN 0
                      ELSE StorageUsed(users, last'.user) - f.size
                /\ ~\E g \in files' : g.id = last'.fileID]_vars

\* a delete succeeded and left nothing of the account's only file
C10_Witness ==
    /\ last.op = "Delete"
    /\ last.err = NoErr
    /\ last.fileID < nextId
    /\ files = {}
    /\ blobs = EmptyBlobs
    /\ \A u \in users : u.storage_used = 0

\* the header carries a token this server signed, not expired, of an account
\* that exists
ValidBearer(authHeader, us) ==
    /\ authHeader.scheme = BearerPrefix
    /\ authHeader.token.signed
    /\ ~authHeader.token.expired
    /\ \E u \in us : u.id = authHeader.token.user_id

\* C11: a request to upload, list, get, download, delete or remaining storage
\* without a valid bearer token, or with the token of a user that does not
\* exist, is answered 401 before the handler runs, and no account, file record
\* or blob changes.
C11_UnauthorizedChangesNothing ==
    [][(last'.op \in ProtectedEndpoints /\ ~ValidBearer(authz', users))
       => (/\ last'.status = StatusUnauthorized
           /\ last'.error # NoErr
           /\ last'.user = ""
           /\ last'.content = <<>>
           /\ body' = NoBody
           /\ users' = users
           /\ files' = files
           /\ blobs' = blobs
           /\ nextId' = nextId)]_vars

\* an upload with the token of an account that is gone, turned away while
\* files are stored
C11_Witness ==
    /\ last.op = "Upload"
    /\ last.status = StatusUnauthorized
    /\ authz = Header(BearerPrefix, Token(GhostUserID, TRUE, FALSE))
    /\ files # {}

\* C12: GET /files lists only records of the authenticated user and counts
\* only those in total_items; GET /files/:id of another user's file is 404
\* "File not found", the response an id no file has gets.
C12_ListAndGetAreOwnerScoped ==
    /\ (last.op = "List" /\ last.status = StatusOK) =>
        /\ \A i \in 1..Len(body.files) :
              /\ body.files[i].user_id = last.user
              /\ \E f \in files : f.id = body.files[i].id /\ f.user_id = last.user
        /\ body.total_items = Cardinality({f \in files : f.user_id = last.user})
    /\ (last.op = "Get" /\ last.status = StatusOK) =>
        /\ body.file.user_id = last.user
        /\ body.file.id = last.fileID
    /\ (/\ last.op = "Get"
        /\ last.status # StatusUnauthorized
        /\ last.fileID # InvalidFileID
        /\ ~\E f \in files : f.id = last.fileID /\ f.user_id = last.user) =>
        /\ last.status = StatusNotFound
        /\ last.error = E(MessageFileNotFound)
        /\ last.fault = "none" => last.err = E(MessageFileNotFound)
        /\ body = NoBody

\* a listing of one file, of a user who has one, while the other user has one
C12_Witness ==
    /\ last.op = "List"
    /\ last.status = StatusOK
    /\ Len(body.files) = 1
    /\ body.total_items = 1
    /\ \E f \in files : f.user_id # last.user

\* C13: an upload whose user record cannot be resolved is answered 404 and
\* changes nothing; a missing file, a duplicate name and an exceeded quota are
\* answered 400, a successful upload 201.
C13_UploadStatuses ==
    [][last'.op = "Upload" =>
        /\ last'.err = E(MessageUserNotFound) =>
              /\ last'.status = StatusNotFound
              /\ users' = users
              /\ files' = files
              /\ blobs' = blobs
        /\ last'.err \in {E("No file provided"), E(MessageFileDuplicate),
                          E(MessageStorageLimitExceeded)} =>
              last'.status = StatusBadRequest
        /\ last'.err = NoErr => last'.status = StatusCreated]_vars

\* C16 as the spec states it: total_storage is storage_limit, storage_used is
\* storage_used, remaining_storage is their difference and is not negative
\* (a reported number x is kept as 100 * x).
C16_RemainingStorageInBytes ==
    (last.op = "Remaining" /\ last.status # StatusUnauthorized) =>
        /\ body.total_storage = 100 * StorageLimit(users, last.user)
        /\ body.storage_used = 100 * StorageUsed(users, last.user)
        /\ body.remaining_storage =
              100 * (StorageLimit(users, last.user) - StorageUsed(users, last.user))
        /\ body.remaining_storage >= 0

\* C16, amended: GET /storage/remaining reports storage_limit, storage_used
\* and storage_limit - storage_used of the requesting user in the unit it
\* names: as they are when the unit is "bytes", each converted to megabytes and
\* rounded to 2 decimals when the unit is "MB"; remaining_storage is never
\* negative.
C16_RemainingStorageInUnit ==
    (last.op = "Remaining" /\ last.status # StatusUnauthorized) =>
        LET limit == StorageLimit(users, last.user)
            used == StorageUsed(users, last.user)
        IN  /\ last.status = StatusOK
            /\ body.unit = "bytes" =>
                  /\ ~displayInMB
                  /\ body.total_storage = 100 * limit
                  /\ body.storage_used = 100 * used
                  /\ body.remaining_storage = 100 * (limit - used)
            /\ body.unit # "bytes" =>
                  /\ displayInMB
                  /\ body.unit = "MB"
                  /\ body.total_storage = RoundHundredths(limit, BytesPerMB)
                  /\ body.storage_used = RoundHundredths(used, BytesPerMB)
                  /\ body.remaining_storage = RoundHundredths(limit - used, BytesPerMB)
            /\ body.remaining_storage >= 0

\* remaining storage reported in bytes to a user who has stored something
C16_Witness ==
    /\ last.op = "Remaining"
    /\ body.unit = "bytes"
    /\ StorageUsed(users, last.user) > 0
    /\ body.remaining_storage = 100 * (LimitA - StorageUsed(users, last.user))

\* goroutines p and q are uploads of one user that read the same storage_used
\* before either wrote, both passed the limit check and both have written
\* their reservation; together the two uploads do not fit the limit
RacedReservations(p, q) ==
    /\ p # q
    /\ procs[p].op = "Upload" /\ procs[q].op = "Upload"
    /\ procs[p].user = procs[q].user
    /\ procs[p].pc \in {"create", "insert"} /\ procs[q].pc \in {"create", "insert"}
    /\ procs[p].change > 0 /\ procs[q].change > 0
    /\ procs[p].read.storage_used = procs[q].read.storage_used
    /\ procs[p].read.storage_used + procs[p].change + procs[q].change
          > procs[p].read.storage_limit

\* C17 as the spec states it: when two uploads of one user have both read the
\* same storage_used, both passed the limit check and both written, the
\* recorded storage_used is greater than storage_limit.
C17_RaceExceedsLimit ==
    \A p, q \in Procs :
        RacedReservations(p, q) =>
            StorageUsed(users, procs[p].user) > StorageLimit(users, procs[p].user)

\* C17, amended: two uploads of one user can both read the same storage_used,
\* both pass the limit check and both write; the later write replaces the
\* earlier one, so the recorded storage_used counts one of the two uploads
\* only and is never greater than storage_limit.
C17_RaceLosesReservation ==
    /\ \A u \in users : u.storage_used <= u.storage_limit
    /\ \A p, q \in Procs :
          RacedReservations(p, q) =>
              /\ StorageUsed(users, procs[p].user)
                    \in {procs[p].read.storage_used + procs[p].change,
                         procs[q].read.storage_used + procs[q].change}
              /\ StorageUsed(users, procs[p].user)
                    < procs[p].read.storage_used + procs[p].change + procs[q].change

\* both uploads of alice have reserved from the same reading of storage_used
C17_Witness ==
    /\ RacedReservations("p1", "p2")
    /\ procs["p1"].user = "u1"
    /\ procs["p1"].pc = "insert"
    /\ procs["p2"].pc = "insert"

RECURSIVE SumSizes(_)
SumSizes(S) ==
    IF S = {} THEN 0
    ELSE LET f == CHOOSE g \in S : TRUE IN f.size + SumSizes(S \ {f})

\* the total size of the live records of a user
LiveSize(fs, userID) == SumSizes({f \in fs : f.user_id = userID})

\* C20: whenever no request is in progress, also after requests that returned
\* an error, the sizes of the live records of a user add up to at most the
\* user's storage_used.
C20_LiveSizeWithinStorageUsed ==
    \A u \in users : LiveSize(files, u.id) <= u.storage_used

\* the request of goroutine p returned in this step
Returned(p, op) ==
    /\ procs'[p].pc = "done"
    /\ procs'[p].op = op
    /\ procs'[p] # procs[p]

\* C14: no two accounts share a username; a registration of a username that
\* is taken fails with 400 "User already exists" and creates no account, also
\* when two registrations of the same name interleave.
C14_UsernamesUnique ==
    [][/\ \A u, v \in users' : u.username = v.username => u = v
       /\ \A p \in Procs :
            (/\ Returned(p, "Register")
             /\ \E u \in users : u.username = procs'[p].username)
            => (/\ procs'[p].status = StatusBadRequest
                /\ procs'[p].error = E(MessageUserExists)
                /\ users' = users)]_vars

\* C15: /login issues a token only when the username exists and the password
\* matches the stored hash; an unknown username and a wrong password get the
\* same 401 "Invalid username or password" and no token.
C15_LoginChecksCredentials ==
    [][\A p \in Procs : Returned(p, "Login") =>
        LET r == procs'[p]
            matching == {u \in users : /\ u.username = r.username
                                       /\ u.password = HashPassword(r.password)}
        IN  /\ r.token # NoToken =>
                  /\ r.status = StatusOK
                  /\ \E u \in matching : r.token = Token(u.id, TRUE, FALSE)
            /\ r.status = StatusOK => r.token # NoToken
            /\ (matching = {} /\ r.error # E(MessageInvalidRequest)) =>
                  /\ r.status = StatusUnauthorized
                  /\ r.error = E(MessageInvalidCredentials)
                  /\ r.token = NoToken
            /\ users' = users]_vars

\* one login with the wrong password of an account and one with a username
\* no account has were answered alike
C15_Witness ==
    \E p, q \in Procs :
        /\ procs[p].pc = "done" /\ procs[p].op = "Login"
        /\ procs[q].pc = "done" /\ procs[q].op = "Login"
        /\ \E u \in users : /\ u.username = procs[p].username
                             /\ u.password # HashPassword(procs[p].password)
        /\ ~\E u \in users : u.username = procs[q].username
        /\ procs[p].status = StatusUnauthorized
        /\ procs[q].status = StatusUnauthorized
        /\ procs[p].error = procs[q].error
        /\ procs[p].token = NoToken /\ procs[q].token = NoToken

\* C18: also when uploads of one user interleave, once all of them have
\* returned the sizes of the user's live records add up to at most the
\* user's storage_limit.
C18_LiveSizeWithinLimit ==
    (\A p \in Procs : procs[p].pc = "idle") =>
        \A u \in users : LiveSize(files, u.id) <= u.storage_limit

RECURSIVE SumBytes(_, _)
SumBytes(bs, paths) ==
    IF paths = {} THEN 0
    ELSE LET path == CHOOSE q \in paths : TRUE
         IN  Len(bs[path]) + SumBytes(bs, paths \ {path})

\* the bytes at the final blob locations of a user
BlobBytes(bs, username) == SumBytes(bs, {path \in DOMAIN bs : path[1] = username})

\* C19: in every state, also between the steps of an upload, a delete or a
\* compensation, the bytes at a user's final blob locations are at most the
\* user's storage_used.
C19_BlobBytesWithinStorageUsed ==
    \A u \in users : BlobBytes(blobs, u.username) <= u.storage_used


\* the step is an upload in which the call named by fault failed after the
\* quota was reserved: the reservation of the request passed the limit check
UploadFailedAt(faults) ==
    /\ last'.op = "Upload"
    /\ last'.fault \in faults
    /\ ~ExceedsLimit(GetUserByID(users, last'.user), Len(last'.data))

\* the final blob location of the upload the step served
UploadPath == FilePath(Username(users, last'.user), last'.name)

\* C21 as stated: an upload that fails at os.Create or io.Copy of the
\* destination after the reservation returns the I/O error, leaves
\* storage_used at its value before the upload and creates no record.
C21_PlacementFailureRestoresUsage ==
    [][UploadFailedAt({"create", "copy"}) =>
          /\ last'.err \in {Wrap("failed to create file", FsErr),
                            Wrap("failed to save file", FsErr)}
          /\ StorageUsed(users', last'.user) = StorageUsed(users, last'.user)
          /\ files' = files]_vars

\* C21 amended: such an upload returns the I/O error and creates no record;
\* storage_used is back at its value before the upload when the compensating
\* UpdateStorageUsed(-size) succeeded, and keeps the reservation (the value
\* before plus size) when that call failed, its error being dropped.
C21_PlacementFailureCompensates ==
    [][UploadFailedAt({"create", "copy"}) =>
          /\ last'.err \in {Wrap("failed to create file", FsErr),
                            Wrap("failed to save file", FsErr)}
          /\ last'.status = StatusBadRequest
          /\ files' = files
          /\ OthersUnchanged(last'.user)
          /\ StorageUsed(users', last'.user) =
                IF last'.rb = "none" THEN StorageUsed(users, last'.user)
                ELSE StorageUsed(users, last'.user) + Len(last'.data)]_vars

\* an upload of at least one byte by a user who already stores a file failed
\* at io.Copy and its reservation was rolled back
C21_Witness ==
    /\ last.op = "Upload"
    /\ last.fault = "copy"
    /\ last.rb = "none"
    /\ last.err = Wrap("failed to save file", FsErr)
    /\ Len(last.data) > 0
    /\ StorageUsed(users, last.user) > 0
    /\ StorageUsed(users, last.user) + Len(last.data) <= StorageLimit(users, last.user)

\* C22 as stated: an upload whose CreateFileMetadata fails returns the
\* metadata error with storage_used at its value before the upload, no blob
\* at the final location and no record of the upload.
C22_InsertFailureRestoresAll ==
    [][UploadFailedAt({"insert"}) =>
          /\ last'.err = Wrap("failed to save file metadata", StoreErr)
          /\ StorageUsed(users', last'.user) = StorageUsed(users, last'.user)
          /\ UploadPath \notin DOMAIN blobs'
          /\ files' = files]_vars

\* C22 amended: such an upload returns the metadata error and leaves no
\* record; each compensating call that succeeded undid its step
\* (storage_used as before, no blob at the final location), each one that
\* failed left it applied (the reservation kept, the written blob in place).
C22_InsertFailureCompensates ==
    [][UploadFailedAt({"insert"}) =>
          /\ last'.err = Wrap("failed to save file metadata", StoreErr)
          /\ last'.status = StatusBadRequest
          /\ files' = files
          /\ OthersUnchanged(last'.user)
          /\ StorageUsed(users', last'.user) =
                IF last'.rb = "none" THEN StorageUsed(users, last'.user)
                ELSE StorageUsed(users, last'.user) + Len(last'.data)
          /\ IF last'.rm
             THEN UploadPath \in DOMAIN blobs' /\ blobs'[UploadPath] = last'.data
             ELSE UploadPath \notin DOMAIN blobs']_vars

\* an upload of at least one byte by a user who already stores a file failed
\* at CreateFileMetadata, and both compensations took effect
C22_Witness ==
    /\ last.op = "Upload"
    /\ last.fault = "insert"
    /\ last.rb = "none"
    /\ ~last.rm
    /\ last.err = Wrap("failed to save file metadata", StoreErr)
    /\ Len(last.data) > 0
    /\ StorageUsed(users, last.user) > 0
    /\ StorageUsed(users, last.user) + Len(last.data) <= StorageLimit(users, last.user)
    /\ FilePath(Username(users, last.user), last.name) \notin DOMAIN blobs


\* goroutine p takes the step that releases the reservation of its failed
\* upload: the UpdateOne of the compensating UpdateStorageUsed(-size)
ReleasesReservation(p) ==
    /\ procs[p].op = "Upload"
    /\ procs[p].pc = "updateOne"
    /\ procs[p].after = "osRemove"
    /\ procs'[p].pc = "osRemove"

\* C23: when an upload fails after the reservation and the blob write, the
\* blob is removed first and the reservation is released only then: at the
\* step that releases the reservation the final location holds no blob.
C23_CompensationInReverseOrder ==
    [][\A p \in Procs :
          ReleasesReservation(p) => procs[p].file.file_path \notin DOMAIN blobs]_vars


\* the step is a call of UpdateStorageUsed: the account before and after it
Reserved == last'.op = "Reserve"
Before == GetUserByID(users, last'.user)
After == GetUserByID(users', last'.user)

\* C24: a call with sizeChange > 0 is refused with "Storage limit exceeded"
\* and writes nothing exactly when storage_used + sizeChange > storage_limit;
\* at storage_used + sizeChange <= storage_limit, equality included, it
\* returns nil and the document holds storage_used + sizeChange.  (A call in
\* which the store itself fails returns the store's error and writes nothing.)
C24_ReserveRefusesAboveLimitOnly ==
    [][(Reserved /\ last'.delta > 0) =>
          LET exceeds == Before.storage_used + last'.delta > Before.storage_limit
          IN  /\ last'.err = E(MessageStorageLimitExceeded) => exceeds
              /\ exceeds => /\ last'.err # NoErr
                            /\ users' = users
                            /\ last'.fault # "get" =>
                                  last'.err = E(MessageStorageLimitExceeded)
              /\ (~exceeds /\ last'.fault = "none") =>
                    /\ last'.err = NoErr
                    /\ After.storage_used = Before.storage_used + last'.delta
                    /\ OthersUnchanged(last'.user)
              /\ last'.err # NoErr => users' = users
              /\ last'.err = NoErr =>
                    After.storage_used = Before.storage_used + last'.delta]_vars

\* a reservation that reached the limit exactly was accepted
C24_Witness ==
    /\ last.op = "Reserve"
    /\ last.delta > 0
    /\ last.err = NoErr
    /\ StorageUsed(users, last.user) = StorageLimit(users, last.user)
    /\ StorageUsed(users, last.user) > last.delta

\* C25: a call with sizeChange < 0 and -sizeChange > storage_used returns nil
\* and sets storage_used to 0; it is never refused and the stored value is
\* never negative.  (A call in which the store itself fails returns the
\* store's error and writes nothing.)
C25_ReclaimClampsAtZero ==
    [][(Reserved /\ last'.delta < 0
           /\ -last'.delta > Before.storage_used) =>
          /\ last'.fault = "none" => last'.err = NoErr
          /\ last'.err = NoErr => After.storage_used = 0
          /\ last'.err # NoErr => last'.err = StoreErr /\ users' = users
          /\ After.storage_used >= 0
          /\ OthersUnchanged(last'.user)]_vars

\* a reclaim larger than any usage an account can record returned nil
C25_Witness ==
    /\ last.op = "Reserve"
    /\ last.delta = -MaxDelta
    /\ -last.delta > StorageLimit(users, last.user)
    /\ last.err = NoErr
    /\ StorageUsed(users, last.user) = 0


\* C26: an upload whose spooling fails (os.CreateTemp, or io.Copy of the
\* request body to the temporary file) returns the I/O error with nothing
\* reserved: storage_used, the records and the blobs are as they were.
C26_SpoolFailureChangesNothing ==
    [][(last'.op = "Upload" /\ last'.fault \in {"createTemp", "spool"}) =>
          /\ last'.err = IF last'.fault = "spool"
                         THEN Wrap("failed to read file data", FsErr)
                         ELSE Wrap("failed to create temporary file", FsErr)
          /\ last'.status = StatusBadRequest
          /\ users' = users
          /\ files' = files
          /\ blobs' = blobs
          /\ nextId' = nextId]_vars

\* the spooling of an upload failed for a user who stores a file and has
\* room for the upload
C26_Witness ==
    /\ last.op = "Upload"
    /\ last.fault = "spool"
    /\ last.err = Wrap("failed to read file data", FsErr)
    /\ Len(last.data) > 0
    /\ StorageUsed(users, last.user) > 0
    /\ StorageUsed(users, last.user) + Len(last.data) <= StorageLimit(users, last.user)
    /\ \E f \in files : f.user_id = last.user /\ f.file_path \in DOMAIN blobs


\* the step is a delete that found the record f it asked for
DeleteFound(f) ==
    /\ last'.op = "Delete"
    /\ last'.fault # "find"
    /\ f \in files
    /\ MatchesFile(f, last'.fileID, last'.user)

\* C27: a delete whose quota reclaim fails returns an error, the blob is gone
\* and is not written again, and the record and storage_used are as they were.
C27_ReclaimFailureKeepsBlobDeleted ==
    [][\A f \in files :
          (DeleteFound(f) /\ last'.fault \in {"reclaimGet", "reclaimUpdate"}) =>
              /\ last'.err = StoreErr
              /\ last'.status = StatusNotFound
              /\ f.file_path \notin DOMAIN blobs'
              /\ \A path \in DOMAIN blobs' : path \in DOMAIN blobs /\ blobs'[path] = blobs[path]
              /\ files' = files
              /\ users' = users]_vars

\* the reclaim of a delete failed: the record is live with its size still
\* counted, and its blob is gone
C27_Witness ==
    /\ last.op = "Delete"
    /\ last.fault = "reclaimUpdate"
    /\ last.err = StoreErr
    /\ \E f \in files :
          /\ MatchesFile(f, last.fileID, last.user)
          /\ f.size > 0
          /\ f.file_path \notin DOMAIN blobs
          /\ StorageUsed(users, f.user_id) >= f.size

\* C28: a delete of a live record whose blob is missing succeeds, reclaims the
\* recorded size and removes the record; a delete whose os.Remove fails for
\* another reason returns an error and leaves storage_used and the record
\* (and the blob) as they were.
C28_MissingBlobIsNotAnError ==
    [][\A f \in files :
          DeleteFound(f) =>
              /\ (last'.fault = "none" /\ f.file_path \notin DOMAIN blobs) =>
                    /\ last'.err = NoErr
                    /\ last'.status = StatusOK
                    /\ StorageUsed(users', f.user_id) =
                          NewStorageUsed(GetUserByID(users, f.user_id), -f.size)
                    /\ OthersUnchanged(f.user_id)
                    /\ files' = files \ {f}
                    /\ blobs' = blobs
              /\ last'.fault = "remove" =>
                    /\ last'.err = Wrap("failed to delete file", FsErr)
                    /\ last'.status = StatusNotFound
                    /\ users' = users
                    /\ files' = files
                    /\ blobs' = blobs]_vars

\* a delete succeeded on a record whose blob was missing when it began, and
\* took the record's size off a usage that counted it
C28_Witness ==
    /\ last.op = "Delete"
    /\ last.err = NoErr
    /\ pre.valid
    /\ \E f \in pre.files :
          /\ MatchesFile(f, last.fileID, last.user)
          /\ f.file_path \notin DOMAIN pre.blobs
          /\ f.size > 0
          /\ f \notin files
          /\ StorageUsed(pre.users, f.user_id) >= f.size
          /\ StorageUsed(users, f.user_id) = StorageUsed(pre.users, f.user_id) - f.size


\* goroutine p takes the last step of a delete: DeleteFileMetadata and the
\* response
ReturnsFromDelete(p) ==
    /\ procs[p].op = "Delete"
    /\ procs[p].pc = "deleteMeta"
    /\ procs'[p].pc = "idle"

\* C29: of the deletes of one file by its owner, interleaved or not, at most
\* one returns success: a delete succeeds only by removing the record, and
\* one that finds the record gone at DeleteFileMetadata answers "File not
\* found", in particular when the response before it was the success of a
\* delete of the same file.
C29_OneDeleteSucceeds ==
    [][\A p \in Procs :
          ReturnsFromDelete(p) =>
              LET f == procs[p].file
              IN  /\ last'.op = "Delete" /\ last'.fileID = f.id /\ last'.user = f.user_id
                  /\ last'.err = NoErr <=> f \in files
                  /\ last'.err = NoErr => f \notin files' /\ last'.status = StatusOK
                  /\ last'.err # NoErr =>
                        /\ last'.err = E(MessageFileNotFound)
                        /\ last'.status = StatusNotFound
                        /\ files' = files
                  /\ (/\ last.op = "Delete"
                      /\ last.err = NoErr
                      /\ last.fileID = f.id
                      /\ last.user = f.user_id) => last'.err = E(MessageFileNotFound)
                  /\ \A g \in files' : g.id < nextId']_vars

\* one of two interleaved deletes of a file returned success while the other,
\* which had found the record too, is about to call DeleteFileMetadata
C29_Witness ==
    /\ last.op = "Delete"
    /\ last.err = NoErr
    /\ \E q \in Procs :
          /\ procs[q].op = "Delete"
          /\ procs[q].pc = "deleteMeta"
          /\ procs[q].file.id = last.fileID
          /\ procs[q].user = last.user
          /\ procs[q].file \notin files

\* goroutine q is inside a delete of record f and its reclaim has taken
\* f.size, or what was left of it, off storage_used
HasReclaimed(q, f) ==
    /\ procs[q].op = "Delete"
    /\ procs[q].pc = "deleteMeta"
    /\ procs[q].file = f
    /\ NewStorageUsed(procs[q].read, procs[q].change) < procs[q].read.storage_used

\* C30: storage_used is reduced at most once on account of one record: once
\* a delete has reclaimed the size of a record, the reclaim of another delete
\* of that record does not reduce storage_used again.
C30_ReclaimedAtMostOnce ==
    [][\A p, q \in Procs :
          (/\ p # q
           /\ procs[p].op = "Delete"
           /\ procs[p].pc = "updateOne"
           /\ procs'[p].pc = "deleteMeta"
           /\ HasReclaimed(q, procs[p].file)) =>
              StorageUsed(users', procs[p].user) >= StorageUsed(users, procs[p].user)]_vars


\* C31: with no request in progress, the location of every live record holds
\* a blob whose length is the record's size.
C31_BlobLengthIsRecordedSize ==
    \A f \in files :
        /\ f.file_path \in DOMAIN blobs
        /\ Len(blobs[f.file_path]) = f.size

\* C32: an upload that returns an error leaves the blob of every record the
\* user already has where it was, with the bytes it had.
C32_FailedUploadKeepsCommittedBlobs ==
    [][(last'.op = "Upload" /\ last'.err # NoErr) =>
          \A f \in files :
              (f.user_id = last'.user /\ f.file_path \in DOMAIN blobs) =>
                  /\ f.file_path \in DOMAIN blobs'
                  /\ blobs'[f.file_path] = blobs[f.file_path]]_vars

\* the bytes an upload of n bytes supplied (request bodies are zero bytes, so
\* the bytes are known from their number, which is the record's size)
Supplied(n) == [i \in 1..n |-> 0]

\* C33: a download of a live file by its owner returns the record's file name
\* and the bytes supplied to the upload that created the record.
C33_DownloadReturnsUploadedBytes ==
    (last.op = "Download" /\ last.err = NoErr) =>
        \E f \in files :
            /\ MatchesFile(f, last.fileID, last.user)
            /\ last.filename = f.file_name
            /\ last.content = Supplied(f.size)


\* C34: records come into existence only in a successful upload (one record,
\* with a fresh id, owned by the caller), disappear only in a successful
\* delete (the record the caller named), and no request changes a field of a
\* record that stays.
C34_RecordsOnlyCreatedAndDeleted ==
    [][/\ \A g \in files' \ files :
              /\ UploadSucceeded
              /\ files' = files \cup {g}
              /\ g.id = last'.fileID
              /\ g.user_id = last'.user
              /\ g.file_name = last'.name
              /\ g.size = Len(last'.data)
              /\ \A f \in files : f.id # g.id
       /\ \A f \in files \ files' :
              /\ DeleteSucceeded
              /\ MatchesFile(f, last'.fileID, last'.user)
              /\ files' = files \ {f}]_vars

\* a record was created by an upload and another one removed by a delete
\* while a third stayed as it was
C34_Witness ==
    /\ last.op = "Delete"
    /\ last.err = NoErr
    /\ pre.valid
    /\ \E f \in pre.files : MatchesFile(f, last.fileID, last.user) /\ f \notin files
    /\ files # {}
    /\ files \subseteq pre.files

\* C35: when the compensating reserve(userID, -size) of a failing upload fails
\* too, the upload still returns its error, no record exists for it, and
\* storage_used stays increased by size when the request has returned.
C35_FailedCompensationLeavesReservation ==
    [][(UploadFailedAt({"seek", "create", "copy", "insert"}) /\ last'.rb # "none") =>
          /\ last'.err # NoErr
          /\ last'.fileID = 0
          /\ files' = files
          /\ StorageUsed(users', last'.user) =
                StorageUsed(users, last'.user) + Len(last'.data)]_vars

\* an upload of some bytes returned an error, the user has no record, and
\* storage_used is the size of the failed upload
C35_Witness ==
    /\ last.op = "Upload"
    /\ last.fault \in {"seek", "create", "copy", "insert"}
    /\ last.rb # "none"
    /\ last.err # NoErr
    /\ Len(last.data) > 0
    /\ \A f \in files : f.user_id # last.user
    /\ StorageUsed(users, last.user) = Len(last.data)

\* C36: when requests run one at a time and no call fails, after every upload
\* or delete each user's storage_used is the sum of the sizes of the user's
\* live records.
C36_UsageIsSumOfLiveSizes ==
    \A u \in users : u.storage_used = LiveSize(files, u.id)

\* a user had two live records of some bytes each and deleted one of them:
\* storage_used went from the sum of both sizes to the size of the other
C36_Witness ==
    /\ last.op = "Delete"
    /\ last.err = NoErr
    /\ pre.valid
    /\ \E f \in pre.files \ files, g \in files :
          /\ f.user_id = last.user
          /\ g.user_id = last.user
          /\ f.size > 0
          /\ g.size > 0
          /\ StorageUsed(pre.users, last.user) = f.size + g.size
          /\ StorageUsed(users, last.user) = g.size


\* C39: no upload, delete, download or reserve changes a user's
\* storage_limit: every account keeps the limit it had.
C39_StorageLimitNeverChanges ==
    [][/\ {u.id : u \in users'} = {u.id : u \in users}
       /\ \A u \in users : StorageLimit(users', u.id) = u.storage_limit]_vars

\* an upload took a user's storage_used up to the limit, which is still the
\* one the account was created with
C39_Witness ==
    /\ last.op = "Upload"
    /\ last.err = NoErr
    /\ Len(last.data) > 0
    /\ last.user = "u1"
    /\ StorageUsed(users, "u1") = LimitA
    /\ StorageLimit(users, "u1") = LimitA


\* C38: when an upload fails because a call to the metadata store failed, the
\* error message sent to the client contains none of the store's error text.
C38_StoreErrorTextNotExposed ==
    (/\ last.op = "Upload"
     /\ last.fault \in {"getUser", "reserveGet", "reserveUpdate", "insert"}
     /\ last.err # NoErr) =>
        \A i \in DOMAIN last.error : last.error[i] # StoreErr[1]


(******************** accounts whose usernames share a directory ***********)
\* RegisterUser accepts every non-empty username that is not yet taken: the
\* second account is registered as "./alice"
InitSharedDirectory ==
    /\ users = {User("u1", "alice", HashPassword("pw1"), LimitA, 0),
                User("u2", "./alice", HashPassword("pw2"), LimitB, 0)}
    /\ files = {}
    /\ blobs = EmptyBlobs
    /\ nextId = 1
    /\ last = NoCall
    /\ pre = NoSnapshot
    /\ faulty = 0
    /\ authz = NoHeader
    /\ body = NoBody
    /\ displayInMB = FALSE
    /\ procs = Idle

SpecSharedDirectory == InitSharedDirectory /\ [][NextFaultFree]_vars

\* the blob at a location, or that there is none
BlobAt(bs, path) == IF path \in DOMAIN bs THEN <<bs[path]>> ELSE <<>>

\* C37: an upload, delete or download by one user changes neither the
\* storage_used, nor the records, nor the blobs of the records of any other
\* user.
C37_OtherUsersUntouched ==
    [][last'.op \in {"Upload", "Delete", "Download"} =>
          \A u \in users : u.id # last'.user =>
              /\ u \in users'
              /\ GetFilesByUserID(files', u.id) = GetFilesByUserID(files, u.id)
              /\ \A f \in GetFilesByUserID(files, u.id) :
                    BlobAt(blobs', f.file_path) = BlobAt(blobs, f.file_path)]_vars


(***************************** termination *********************************)
\* DownloadFile line 150: GetFileByID; next is os.Open(file.FilePath)
Step_DownloadFile_GetFileByID(p, userID, fileID) ==
    LET got == GetFileByID(files, fileID, userID, FALSE)
    IN  /\ procs[p].pc = "idle"
        /\ IF got.err # NoErr
           THEN StepReturn(p, DownloadResponse(userID, fileID, "none",
                                 [name |-> "", content |-> <<>>, err |-> got.err]))
           ELSE /\ procs' = [procs EXCEPT ![p] =
                       StepProc("open", "Download", userID, "", <<>>, got.file,
                                0, NoUser, "", NoErr)]
                /\ UNCHANGED last
        /\ UNCHANGED <<users, files, blobs, nextId, faulty>>

\* DownloadFile lines 156-161: os.Open, which fails when the blob is missing,
\* and the return of the name and the content
Step_DownloadFile_Open(p) ==
    LET me == procs[p]
        path == me.file.file_path
        r == IF path \in DOMAIN blobs
             THEN [name |-> me.file.file_name, content |-> blobs[path], err |-> NoErr]
             ELSE [name |-> "", content |-> <<>>,
                   err |-> Wrap("failed to open file", FsErr)]
    IN  /\ me.pc = "open"
        /\ StepReturn(p, DownloadResponse(me.user, me.file.id, "none", r))
        /\ UNCHANGED <<users, files, blobs, nextId, faulty>>

\* the call the goroutine makes next returns an error (a driver error, the
\* 5 s timeout of its context, an os error) and changes nothing.  DeleteFile
\* and DownloadFile return it, and so does UploadFile for its reservation;
\* the compensation of UploadFile discards it and goes on.  (The failures of
\* io.Copy and CreateFileMetadata are in the steps of UploadFile above.)  A
\* failure inside the compensation belongs to the request that already failed
Step_CallFails(p) ==
    LET me == procs[p]
        err == IF me.pc \in {"remove", "open"}
               THEN Wrap(IF me.pc = "open" THEN "failed to open file"
                         ELSE "failed to delete file", FsErr)
               ELSE StoreErr
    IN  /\ me.pc \in {"getUser", "updateOne", "osRemove", "remove", "deleteMeta", "open"}
        /\ IF me.op = "Upload" /\ me.after = "osRemove"
           THEN UNCHANGED faulty
           ELSE Inject("call")
        /\ CASE me.op = "Download" ->
                  StepReturn(p, DownloadResponse(me.user, me.file.id, "injected",
                                    [name |-> "", content |-> <<>>, err |-> err]))
             [] me.op = "Delete" ->
                  StepReturn(p, DeleteResponse(me.user, me.file.id, "injected",
                                    [err |-> err]))
             [] me.op = "Upload" /\ me.pc = "osRemove" ->
                  StepReturn(p, UploadResponse(me.user, me.name, me.data, "injected",
                                    [err |-> me.err, file |-> NoFile]))
             [] me.op = "Upload" /\ me.pc # "osRemove" /\ me.after = "create" ->
                  StepReturn(p, UploadResponse(me.user, me.name, me.data, "injected",
                                    [err |-> err, file |-> NoFile]))
             [] OTHER ->
                  /\ procs' = [procs EXCEPT ![p].pc = "osRemove"]
                  /\ UNCHANGED last
        /\ UNCHANGED <<users, files, blobs, nextId>>

\* the call in progress returns, with or without an error, and the goroutine
\* goes on to its next call or to its return
CallReturns(p) ==
    /\ \/ Step_UpdateStorageUsed_GetUserByID(p)
       \/ Step_UpdateStorageUsed_UpdateOne(p)
       \/ \E fault \in BOOLEAN :
             \E k \in IF fault THEN 0..Len(procs[p].data) ELSE {0} :
                 Step_UploadFile_Copy(p, fault, k)
       \/ \E fault \in BOOLEAN : Step_UploadFile_CreateFileMetadata(p, fault)
       \/ Step_UploadFile_Remove(p)
       \/ Step_DeleteFile_Remove(p)
       \/ Step_DeleteFile_DeleteFileMetadata(p)
       \/ Step_DownloadFile_Open(p)
       \/ Step_CallFails(p)
    /\ StepsUnchanged

\* the requests are those of one account on one file name, which meet at
\* every store, with uploads of at least one byte, whose reservation and
\* compensation change storage_used; the steps after the first are the
\* disjuncts of CallReturns
NextTermination ==
    \/ \E p \in Procs, fileData \in Contents \ {<<>>} :
          Step_UploadFile_Spool(p, "u1", "a.txt", fileData) /\ StepsUnchanged
    \/ \E p \in Procs, fileID \in FileIDs :
          Step_DeleteFile_GetFileByID(p, "u1", fileID) /\ StepsUnchanged
    \/ \E p \in Procs, fileID \in FileIDs :
          Step_DownloadFile_GetFileByID(p, "u1", fileID) /\ StepsUnchanged
    \/ LedgerGetUser
    \/ LedgerUpdateOne
    \/ UploadCopy
    \/ UploadInsert
    \/ UploadUndoRemove
    \/ DeleteRemove
    \/ DeleteRecord
    \/ \E p \in Procs : Step_DownloadFile_Open(p) /\ StepsUnchanged
    \/ \E p \in Procs : Step_CallFails(p) /\ StepsUnchanged

\* every call of the drivers and of the os package returns: the store calls
\* carry a context with a timeout, and each handler runs in its own goroutine
SpecTermination ==
    /\ InitSteps
    /\ [][NextTermination]_vars
    /\ \A p \in Procs : WF_vars(CallReturns(p))

\* the largest number of calls a goroutine still makes before it returns
CallsLeft(proc) ==
    CASE proc.pc = "idle" -> 0
      [] proc.pc \in {"open", "osRemove", "deleteMeta"} -> 1
      [] proc.pc = "updateOne" -> IF proc.after = "create" THEN 6 ELSE 2
      [] proc.pc = "getUser" -> IF proc.after = "create" THEN 7 ELSE 3
      [] proc.pc = "remove" -> 4
      [] proc.pc = "insert" -> 4
      [] proc.pc = "create" -> 5

\* C40: every started upload, delete or download returns after finitely many
\* calls: a goroutine in an operation is eventually idle again, each of its
\* steps leaves fewer calls to make (no step is made again), and its next
\* call can always return, whatever the other goroutine is doing.
C40_EveryOperationReturns ==
    /\ \A p \in Procs : (procs[p].pc # "idle") ~> (procs[p].pc = "idle")
    /\ [][\A p \in Procs :
             (procs'[p] # procs[p] /\ procs[p].pc # "idle") =>
                 CallsLeft(procs'[p]) < CallsLeft(procs[p])]_vars
    /\ [](\A p \in Procs : procs[p].pc # "idle" => ENABLED CallReturns(p))

\* an upload has returned the error of a failed insert after its
\* compensation, while the other goroutine is inside an operation
C40_Witness ==
    /\ last.op = "Upload"
    /\ last.err = Wrap("failed to save file metadata", StoreErr)
    /\ \E p, q \in Procs :
          /\ procs[p].pc = "idle"
          /\ procs[q].pc \in {"updateOne", "remove", "open"}

====
